---- MODULE Spec2Model ----
(***************************************************************************)
(* Model of the WhatsApp conversation core of MCP2: the per-user session   *)
(* state machine, the history store, the query builder and the search      *)
(* selection, as implemented by the /twilio/whatsapp webhook handler        *)
(* (stats-enabled revision, src/src/routes/mcpRouter.ts 439-933, which is   *)
(* src/src/routes/webhooks.ts plus the stats branch).                       *)
(*                                                                         *)
(* Strings are sequences of one-character strings, so that trim(),          *)
(* toLowerCase() and the whitespace collapse are computed, not assumed.     *)
(***************************************************************************)
EXTENDS Integers, Sequences, FiniteSets, TLC

VARIABLES sessions, history, clock, reqs

vars == <<sessions, history, clock, reqs>>

-----------------------------------------------------------------------------
(* Bounds *)

\* total number of history entries (over all users) the model lets accumulate:
\* three, so that an entry can be appended after two earlier ones
MaxHist == 3
\* largest timestamp (milliseconds) the wall clock reaches
MaxClock == 1
\* largest number of playlists in one provider answer
MaxCands == 2

-----------------------------------------------------------------------------
(* JavaScript values *)

\* null / undefined of a string-valued field
NULL == <<"null">>
\* undefined lastIntent (intents are plain strings; "" is falsy like undefined)
NoIntent == ""

Truthy(v) == v # NULL /\ v # <<>>

\* a || b
Or(a, b) == IF Truthy(a) THEN a ELSE b

UpperAlpha == <<"A","B","C","D","E","F","G","H","I","J","K","L","M",
                "N","O","P","Q","R","S","T","U","V","W","X","Y","Z">>
LowerAlpha == <<"a","b","c","d","e","f","g","h","i","j","k","l","m",
                "n","o","p","q","r","s","t","u","v","w","x","y","z">>

LowerChar(c) ==
  IF \E i \in 1..26 : UpperAlpha[i] = c
  THEN LowerAlpha[CHOOSE i \in 1..26 : UpperAlpha[i] = c]
  ELSE c

\* the case is kept
toLowerCase_kept(s) == s

\* String.prototype.toLowerCase
toLowerCase(s) == [i \in 1..Len(s) |-> LowerChar(s[i])]

IsSpace(c) == c = " "

RECURSIVE TrimLeft(_)
TrimLeft(s) ==
  IF s = <<>> THEN <<>>
  ELSE IF IsSpace(Head(s)) THEN TrimLeft(Tail(s)) ELSE s

RECURSIVE TrimRight(_)
TrimRight(s) ==
  IF s = <<>> THEN <<>>
  ELSE IF IsSpace(s[Len(s)]) THEN TrimRight(SubSeq(s, 1, Len(s) - 1)) ELSE s

\* String.prototype.trim
trim(s) == TrimRight(TrimLeft(s))

\* s.replace(/\s+/g, " ")
RECURSIVE CollapseSpaces(_)
CollapseSpaces(s) ==
  IF s = <<>> THEN <<>>
  ELSE IF IsSpace(Head(s))
       THEN <<" ">> \o CollapseSpaces(TrimLeft(s))
       ELSE <<Head(s)>> \o CollapseSpaces(Tail(s))

\* the parts are glued without a separator
RECURSIVE join_glued(_)
join_glued(parts) ==
  IF parts = <<>> THEN <<>> ELSE Head(parts) \o join_glued(Tail(parts))

\* parts.join(" ")
RECURSIVE join(_)
join(parts) ==
  IF parts = <<>> THEN <<>>
  ELSE IF Len(parts) = 1 THEN parts[1]
  ELSE parts[1] \o <<" ">> \o join(Tail(parts))

\* function normalizeText(text) { return (text || "").trim(); }
normalizeText(text) == trim(Or(text, <<>>))

-----------------------------------------------------------------------------
(* Data: users, messages, classifier answers, catalog *)

Users == {"u1", "u2"}

\* req.body.From when it is missing ("" stands for undefined: both are falsy)
NoFrom == ""

\* req.body.From of the turns of the main specification: one user, or missing
Senders == {NoFrom, "u1"}

En   == <<"e","n">>
Sad  == <<"s","a","d">>
Slow == <<"s","l","o","w">>
Abba == <<"a","b","b","a">>
Sos  == <<"s","o","s">>

\* req.body.Body: missing, a language typed with a leading space and a
\* capital, and the stats command typed with a capital
Bodies ==
  { NULL,
    <<" ","E","n">>,
    <<"S","t","a","t","s">> }

Intents == {"playlist", "artist_search", "repeat", "change_vibe", "other"}

Classification(mood, language, vibe, artist, track, intent) ==
  [ mood |-> mood, language |-> language, vibe |-> vibe, artist |-> artist,
    track |-> track, intent |-> intent ]

\* What classifyMoodAndLanguage can return (openaiClient.ts 511-538): strings
\* are lower-cased or null, the intent is one of IntentType, and a non-null
\* artist forces artist_search unless the intent is repeat or change_vibe.
ClassificationResults ==
  { c \in [ mood : {NULL, Sad}, language : {NULL, En}, vibe : {NULL, Slow},
            artist : {NULL, Abba}, track : {NULL, Sos}, intent : Intents ] :
      (c.artist # NULL /\ c.intent \notin {"repeat", "change_vibe"})
         => c.intent = "artist_search" }

\* the value of `ai` when the classifier call raised (ai = null): every
\* ai?.field is undefined
NoClassification ==
  Classification(NULL, NULL, NULL, NULL, NULL, NoIntent)

\* The classifier answers the turns of the main specification draw from:
\* nothing extracted, a mood with or without language and vibe, an artist
\* request with or without language, repeat with or without a mood,
\* change_vibe with or without a new vibe, and the classifier call failing.
TurnClassifications ==
  { NoClassification,
    Classification(NULL, NULL, NULL, NULL, NULL, "playlist"),
    Classification(Sad, NULL, NULL, NULL, NULL, "playlist"),
    Classification(Sad, En, NULL, NULL, NULL, "playlist"),
    Classification(Sad, En, Slow, NULL, NULL, "other"),
    Classification(NULL, NULL, NULL, Abba, NULL, "artist_search"),
    Classification(NULL, En, NULL, Abba, Sos, "artist_search"),
    Classification(Sad, En, NULL, Abba, NULL, "artist_search"),
    Classification(NULL, NULL, NULL, NULL, NULL, "repeat"),
    Classification(Sad, NULL, NULL, NULL, NULL, "repeat"),
    Classification(NULL, NULL, Slow, NULL, NULL, "change_vibe"),
    Classification(NULL, NULL, NULL, NULL, NULL, "change_vibe") }

\* Playlists the provider can answer with: id, name, external_urls.spotify
P1 == [ id |-> <<"p","1">>, name |-> <<"M","i","x">>, url |-> <<"l","1">> ]
P2 == [ id |-> <<"p","2">>, name |-> <<"B","l","u","e">>, url |-> NULL ]

Catalog == {P1, P2}

\* one track of a playlist: name, artists, url
Track1 == [ name |-> <<"t","1">>, artists |-> <<"a","1">>, url |-> NULL ]

\* sequences of at most n distinct elements of S
DistinctSeqs(S, n) ==
  { q \in UNION { [1..k -> S] : k \in 0..n } :
      \A i, j \in DOMAIN q : q[i] = q[j] => i = j }

\* Answers of the search provider: the call raises, or it returns the playlist
\* items of searchPlaylists and the track items of getPlaylistTracks (no
\* track items only for a single playlist, to keep the set small).
SearchAnswers ==
  { [ throws |-> TRUE, items |-> <<>>, tracks |-> <<>> ],
    [ throws |-> FALSE, items |-> <<P1>>, tracks |-> <<>> ] } \cup
  { [ throws |-> FALSE, items |-> it, tracks |-> <<Track1>> ] :
      it \in DistinctSeqs(Catalog, MaxCands) }

\* Outcomes of sendTwilioMessage (twilioClient.ts): delivered, a non-throwing
\* error object (429 or another HTTP error), or fetch raising.
SendOutcomes == {"ok", "failed", "throw"}

-----------------------------------------------------------------------------
(* History store *)

NoEntry == [ mood |-> NULL, language |-> NULL, playlistId |-> NULL,
             playlistName |-> NULL, playlistUrl |-> NULL, lastUsedAt |-> -1 ]

\* history.get(from) ?? []
HistoryOf(h, from) == IF from \in DOMAIN h THEN h[from] ELSE <<>>

\* Array.prototype.sort((a, b) => b.lastUsedAt.localeCompare(a.lastUsedAt)):
\* a stable sort, latest timestamp first (insertion of e behind every element
\* that does not sort after it)
RECURSIVE InsertDesc(_, _)
InsertDesc(e, sorted) ==
  IF sorted = <<>> THEN <<e>>
  ELSE IF Head(sorted).lastUsedAt >= e.lastUsedAt
       THEN <<Head(sorted)>> \o InsertDesc(e, Tail(sorted))
       ELSE <<e>> \o sorted

\* the list is left in insertion order
SortDesc_unsorted(list) == list

RECURSIVE SortDesc(_)
SortDesc(list) ==
  IF list = <<>> THEN <<>>
  ELSE InsertDesc(list[Len(list)], SortDesc(SubSeq(list, 1, Len(list) - 1)))

MatchesPair(e, mood, language) ==
  /\ toLowerCase(e.mood) = toLowerCase(mood)
  /\ toLowerCase(e.language) = toLowerCase(language)

\* getLastHistory on a given list
LastOfList(list, mood, language) ==
  LET matching == SelectSeq(list, LAMBDA e : MatchesPair(e, mood, language))
      sorted   == SortDesc(matching)
  IN  IF sorted = <<>> THEN NoEntry ELSE sorted[1]

getLastHistory(h, from, mood, language) ==
  LastOfList(HistoryOf(h, from), mood, language)

\* every key is given the value
MapSet_all(m, k, v) == [ x \in DOMAIN m \cup {k} |-> v ]

\* Map.prototype.set
MapSet(m, k, v) == [ x \in DOMAIN m \cup {k} |-> IF x = k THEN v ELSE m[x] ]

\* the list is replaced by the entry: what was appended before is lost
addHistory_overwritten(h, from, entry) == MapSet(h, from, <<entry>>)

\* the entry is lost
addHistory_dropped(h, from, entry) == h

\* the entry is put in front
addHistory_prepended(h, from, entry) ==
  MapSet(h, from, <<entry>> \o HistoryOf(h, from))

addHistory(h, from, entry) ==
  MapSet(h, from, Append(HistoryOf(h, from), entry))

-----------------------------------------------------------------------------
(* Search provider client: getPlaylistForMood *)

NoMeta == [ id |-> NULL, name |-> NULL, url |-> NULL ]

\* Array.prototype.find, given the items that satisfy the test in their order:
\* the first of them, or NoMeta (undefined)
FirstOrNone(hits) == IF hits = <<>> THEN NoMeta ELSE hits[1]

\* the empty array getPlaylistForMood returns when no playlist has an id; also
\* the value of `tracks` before the search returned
NoTracks == [ tracks |-> <<>>, playlist |-> NoMeta, alternatePlaylist |-> NoMeta ]

\* the excluded id is ignored
getPlaylistForMood_first(answer, excludePlaylistId) ==
  LET playlists == SelectSeq(answer.items, LAMBDA p : Truthy(p.id))
  IN  IF playlists = <<>>
      THEN NoTracks
      ELSE [ tracks |-> answer.tracks, playlist |-> playlists[1],
             alternatePlaylist |-> NoMeta ]

\* getPlaylistForMood(mood, language, excludePlaylistId), given the provider's
\* answer; the result is the track array with its playlist and
\* alternatePlaylist properties (NoMeta when unset)
getPlaylistForMood(answer, excludePlaylistId) ==
  LET playlists == SelectSeq(answer.items, LAMBDA p : Truthy(p.id))
      found     == FirstOrNone(SelectSeq(playlists,
                                         LAMBDA p : p.id # excludePlaylistId))
      primary   == IF found # NoMeta THEN found ELSE playlists[1]
      alt       == FirstOrNone(SelectSeq(playlists,
                      LAMBDA p : p.id # primary.id /\ p.id # excludePlaylistId))
  IN  IF playlists = <<>>
      THEN NoTracks
      ELSE [ tracks |-> answer.tracks, playlist |-> primary,
             alternatePlaylist |-> alt ]

\* !tracks.length || !playlistMeta
NothingFound(res) == res.tracks = <<>> \/ res.playlist = NoMeta

-----------------------------------------------------------------------------
(* Reply text: a sequence of lines; a line is a template (tag) with the string *)
(* values s and the numbers n it interpolates; "" is EmptyLine                *)

Line(tag, s, n) == [ tag |-> tag, s |-> s, n |-> n ]
EmptyLine == Line("", <<>>, <<>>)

\* cond ? line : ""
Opt(cond, line) == IF cond THEN line ELSE EmptyLine

\* replyLines.filter(Boolean)
FilterBoolean(lines) == SelectSeq(lines, LAMBDA l : l # EmptyLine)

\* the "Last time you listened ..." block pushed when `previous` is set
PreviousNote(previous, mood, language) ==
  << Line("last-time", <<mood, language>>, <<previous.lastUsedAt>>),
     Line("same-playlist",
          <<Or(previous.playlistName, <<"(","n","o"," ","n","a","m","e",")">>)>>,
          <<>>),
     Opt(Truthy(previous.playlistUrl),
         Line("same-playlist-link", <<previous.playlistUrl>>, <<>>)),
     EmptyLine >>

\* playlist, first song and alternate lines shared by the recommendation replies
RecommendationBody(res) ==
  LET playlistMeta == res.playlist
      altMeta      == res.alternatePlaylist
      first        == res.tracks[1]
  IN  << Line("playlist", <<playlistMeta.name>>, <<>>),
         Opt(Truthy(playlistMeta.url),
             Line("playlist-link", <<playlistMeta.url>>, <<>>)),
         EmptyLine,
         Line("song", <<first.name>>, <<>>),
         Line("artists", <<first.artists>>, <<>>),
         Opt(Truthy(first.url), Line("song-link", <<first.url>>, <<>>)) >>
      \o
      ( IF altMeta # NoMeta /\ Truthy(altMeta.url)
        THEN << EmptyLine,
                Line("alt-intro", <<>>, <<>>),
                Line("alt-playlist", <<altMeta.name>>, <<>>),
                Line("alt-link", <<altMeta.url>>, <<>>) >>
        ELSE <<>> )

-----------------------------------------------------------------------------
(* Query builder (inline in the waiting_language and fresh-request branches) *)

\* nothing is pushed
PushIf_skipped(parts, x) == parts

\* the query is the message
buildQuery_message(intent, mood, vibe, artist, track, textLower) ==
  textLower

\* if (x) parts.push(x)
PushIf(parts, x) == IF Truthy(x) THEN Append(parts, x) ELSE parts

buildQuery(intent, mood, vibe, artist, track, textLower) ==
  IF intent = "artist_search"
  THEN LET p1 == PushIf(PushIf(<<>>, artist), track)
           p2 == IF p1 = <<>> /\ Truthy(mood) THEN Append(p1, mood) ELSE p1
           p3 == IF p2 = <<>> THEN Append(p2, textLower) ELSE p2
       IN  trim(join(p3))
  ELSE LET moodPieces == PushIf(PushIf(<<>>, mood), vibe)
       IN  Or(trim(join(moodPieces)), textLower)

-----------------------------------------------------------------------------
(* Statistics: getUserStats *)

DayMs == 86400000

\* keys of a Map in insertion order: the first occurrences of the elements of ks
RECURSIVE KeysInOrder(_)
KeysInOrder(ks) ==
  IF ks = <<>> THEN <<>>
  ELSE LET init == KeysInOrder(SubSeq(ks, 1, Len(ks) - 1))
           k    == ks[Len(ks)]
       IN  IF \E i \in 1..Len(init) : init[i] = k THEN init ELSE Append(init, k)

CountOf(k, ks) == Cardinality({ i \in 1..Len(ks) : ks[i] = k })

\* a later key with an equal count replaces the best so far
RECURSIVE TopScan_last(_, _, _)
TopScan_last(keys, ks, best) ==
  IF keys = <<>> THEN best
  ELSE LET v == CountOf(Head(keys), ks)
       IN  TopScan_last(Tail(keys), ks,
                        IF v >= best.count
                        THEN [ key |-> Head(keys), count |-> v ]
                        ELSE best)

\* topEntry: scan the map in insertion order, keep the first key whose count is
\* strictly greater than the best so far
RECURSIVE TopScan(_, _, _)
TopScan(keys, ks, best) ==
  IF keys = <<>> THEN best
  ELSE LET v == CountOf(Head(keys), ks)
       IN  TopScan(Tail(keys), ks,
                   IF v > best.count THEN [ key |-> Head(keys), count |-> v ]
                   ELSE best)

topEntry(ks) == TopScan(KeysInOrder(ks), ks, [ key |-> NULL, count |-> 0 ])

NoStats == [ totalPlays |-> 0 ]

getUserStats(h, from) ==
  LET entries   == HistoryOf(h, from)
      moodKeys  == [ i \in 1..Len(entries) |-> toLowerCase(entries[i].mood) ]
      langKeys  == [ i \in 1..Len(entries) |-> toLowerCase(entries[i].language) ]
      plKey(e)  == toLowerCase(Or(e.playlistName, e.playlistId))
      plKeys    == [ i \in 1..Len(entries) |-> plKey(entries[i]) ]
      topMood     == topEntry(moodKeys)
      topLanguage == topEntry(langKeys)
      topPlaylist == topEntry(plKeys)
      findPlaylistNameFromKey(key) ==
        IF ~Truthy(key) THEN NULL
        ELSE LET hit == SelectSeq(entries,
                          LAMBDA e : plKey(e) = toLowerCase(key))
             IN  IF hit = <<>> THEN NULL
                 ELSE Or(Or(hit[1].playlistName, hit[1].playlistId), NULL)
  IN  IF entries = <<>> THEN NoStats
      ELSE [ totalPlays       |-> Len(entries),
             topMood          |-> topMood.key,
             topMoodCount     |-> topMood.count,
             topLanguage      |-> topLanguage.key,
             topLanguageCount |-> topLanguage.count,
             topPlaylistName  |-> findPlaylistNameFromKey(topPlaylist.key),
             topPlaylistCount |-> topPlaylist.count,
             first            |-> entries[1].lastUsedAt,
             last             |-> entries[Len(entries)].lastUsedAt ]

\* Math.max(1, Math.round(diffMs / (1000 * 60 * 60 * 24))) for diffMs >= 0
retentionDays(diffMs) ==
  LET rounded == (2 * diffMs + DayMs) \div (2 * DayMs)
  IN  IF rounded > 1 THEN rounded ELSE 1

NA == <<"N","/","A">>

StatsReply(stats) ==
  IF stats = NoStats
  THEN << Line("no-stats-yet", <<>>, <<>>),
          Line("ask-for-a-playlist-first", <<>>, <<>>) >>
  ELSE << Line("stats-title", <<>>, <<>>),
          EmptyLine,
          Line("stats-total", <<>>, <<stats.totalPlays>>),
          Line("stats-mood", <<IF stats.topMood = NULL THEN NA ELSE stats.topMood>>,
               <<stats.topMoodCount>>),
          Line("stats-language",
               <<IF stats.topLanguage = NULL THEN NA ELSE stats.topLanguage>>,
               <<stats.topLanguageCount>>),
          Line("stats-playlist",
               <<IF stats.topPlaylistName = NULL THEN NA
                 ELSE stats.topPlaylistName>>,
               <<stats.topPlaylistCount>>),
          EmptyLine,
          Line("stats-first", <<>>, <<stats.first>>),
          Line("stats-latest", <<>>, <<stats.last>>),
          Line("stats-retention", <<>>,
               <<retentionDays(stats.last - stats.first)>>) >>

-----------------------------------------------------------------------------
(* Session store and in-flight requests *)

\* { stage: "idle" }: every other field is undefined
IdleSession ==
  [ stage |-> "idle", mood |-> NULL, language |-> NULL, vibe |-> NULL,
    lastPlaylistId |-> NULL, lastArtist |-> NULL, lastTrack |-> NULL,
    lastIntent |-> NoIntent ]

\* sessions.get(from) || { stage: "idle" }
SessionOf(ss, from) == IF from \in DOMAIN ss THEN ss[from] ELSE IdleSession

TotalEntries(h) ==
  LET RECURSIVE Sum(_)
      Sum(D) == IF D = {} THEN 0
                ELSE LET u == CHOOSE x \in D : TRUE
                     IN  Len(h[u]) + Sum(D \ {u})
  IN  Sum(DOMAIN h)

\* Request slots: one invocation of the handler each.  The handler runs
\* between its awaits without interruption; pc names the await it is at.
Slots == {1, 2}

\* A request: its position, the handler's local variables (from, bodyRaw,
\* current, ai, previous, excludeId, searchQuery, language), and what it did
\* (the branch taken, the calls made, the playlist items the provider answered,
\* the reply and the response status)
NoRequest ==
  [ pc |-> "idle", from |-> NoFrom, body |-> NULL, current |-> IdleSession,
    ai |-> NoClassification, branch |-> "none", classified |-> FALSE,
    searched |-> FALSE, query |-> NULL, language |-> NULL,
    previous |-> NoEntry, excludeId |-> NULL, items |-> <<>>,
    tracks |-> NoTracks,
    outcome |-> "none",
    playlistId |-> NULL, appended |-> FALSE, reply |-> <<>>,
    sent |-> "none", apology |-> "none", status |-> 0,
    completion |-> [ kind |-> "none" ] ]

Init ==
  /\ sessions = [ u \in {} |-> IdleSession ]
  /\ history = [ u \in {} |-> <<>> ]
  /\ clock = 0
  /\ reqs = [ r \in Slots |-> NoRequest ]

\* no handler is between its first and its last statement
Quiet == \A r \in Slots : reqs[r].pc \in {"idle", "done"}

\* new Date().toISOString(): the wall clock read at the append, not earlier
\* than the previous reading (two reads may fall in the same millisecond)
Timestamps == { t \in {clock, clock + 1} : t <= MaxClock }

-----------------------------------------------------------------------------
(* The webhook handler: one action per stretch of code between two awaits,   *)
(* and per branch.  Guards are the conditions and early returns on the way.   *)

\* no event is turned away
Malformed_never(from, bodyRaw) == FALSE

\* !from || !text
Malformed(from, bodyRaw) == from = NoFrom \/ normalizeText(bodyRaw) = <<>>

\* ai?.intent || "playlist"   and   current.lastIntent || "playlist"
IntentOr(i) == IF i # NoIntent THEN i ELSE "playlist"

hasCurrentPlaylist(current) ==
  /\ current.stage = "playlist_shown"
  /\ Truthy(current.mood)
  /\ Truthy(current.language)
  /\ Truthy(current.lastPlaylistId)

\* no text is a stats command
isStatsCommand_never(textLower) == FALSE

isStatsCommand(textLower) ==
  LET normalizedCommand == trim(CollapseSpaces(textLower))
  IN  \/ normalizedCommand = <<"s","t","a","t","s">>
      \/ normalizedCommand = <<"m","y"," ","s","t","a","t","s">>
      \/ normalizedCommand =
           <<"s","h","o","w"," ","m","y"," ","s","t","a","t","s">>

isStatsIntent(intent) == intent = "user_stats"

TextLower(q) == toLowerCase(normalizeText(q.body))

StatsTurn(q, ai) ==
  isStatsCommand(TextLower(q)) \/ isStatsIntent(IntentOr(ai.intent))

\* neither the stats branch nor the repeat / change_vibe branches returned
FallsThrough(q, ai) ==
  /\ q.pc = "classify"
  /\ ~StatsTurn(q, ai)
  /\ ~( hasCurrentPlaylist(q.current)
        /\ IntentOr(ai.intent) \in {"repeat", "change_vibe"} )

\* every classification counts as empty
NothingExtracted_always(ai) == TRUE

\* no classification counts as empty
NothingExtracted_never(ai) == FALSE

NothingExtracted(ai) ==
  ~Truthy(ai.mood) /\ ~Truthy(ai.artist) /\ ~Truthy(ai.track)

\* replyLines ... .filter(Boolean).join("\n"), about to be sent
WithReply(q, lines) == [ q EXCEPT !.pc = "send", !.reply = FilterBoolean(lines) ]

SetReq(r, q) == reqs' = [ reqs EXCEPT ![r] = q ]

\* The handler returned: its local variables are gone; what remains visible is
\* who it answered, the sends it made and the response status.
Returned(q, sent, apology, status) ==
  [ NoRequest EXCEPT !.pc = "done", !.from = q.from, !.sent = sent,
                     !.apology = apology, !.status = status ]

\* Entry of the handler up to its first await: the input guard, the session
\* lookup and, in stage waiting_language, the query for the awaited search
Receive(r, from, bodyRaw) ==
  LET current   == SessionOf(sessions, from)
      textLower == toLowerCase(normalizeText(bodyRaw))
      q0        == [ NoRequest EXCEPT !.from = from, !.body = bodyRaw ]
      language  == textLower
      mood      == Or(current.mood, NULL)
      vibe      == Or(current.vibe, NULL)
      artist    == Or(current.lastArtist, NULL)
      track     == Or(current.lastTrack, NULL)
      intent    == IntentOr(current.lastIntent)
      previous  == IF Truthy(mood)
                   THEN getLastHistory(history, from, mood, language)
                   ELSE NoEntry
  IN  /\ reqs[r].pc \in {"idle", "done"}
      /\ IF Malformed(from, bodyRaw)
         THEN SetReq(r, Returned([ q0 EXCEPT !.branch = "reject" ],
                                 "none", "none", 400))
         ELSE IF current.stage = "waiting_language"
         THEN SetReq(r, [ q0 EXCEPT
                 !.pc = "search", !.current = current,
                 !.branch = "waiting_language", !.searched = TRUE,
                 !.query = buildQuery(intent, mood, vibe, artist, track,
                                      textLower),
                 !.language = language, !.previous = previous,
                 !.excludeId = previous.playlistId ])
         ELSE SetReq(r, [ q0 EXCEPT !.pc = "classify", !.current = current,
                                    !.classified = TRUE ])
      /\ UNCHANGED <<sessions, history, clock>>

\* The classifier returned `ai` (NoClassification when it raised): the stats
\* branch
Stats(r, ai) ==
  LET q == reqs[r]
  IN  /\ q.pc = "classify"
      /\ StatsTurn(q, ai)
      /\ SetReq(r, WithReply([ q EXCEPT !.ai = ai, !.branch = "stats" ],
                             StatsReply(getUserStats(history, q.from))))
      /\ UNCHANGED <<sessions, history, clock>>

Repeat(r, ai) ==
  LET q            == reqs[r]
      baseMood     == q.current.mood
      baseLanguage == q.current.language
      prev         == getLastHistory(history, q.from, baseMood, baseLanguage)
  IN  /\ q.pc = "classify"
      /\ ~StatsTurn(q, ai)
      /\ hasCurrentPlaylist(q.current)
      /\ IntentOr(ai.intent) = "repeat"
      /\ SetReq(r, WithReply(
            [ q EXCEPT !.ai = ai, !.branch = "repeat", !.previous = prev ],
            << Line("replaying", <<baseMood, baseLanguage>>, <<>>),
               Opt(Truthy(prev.playlistName),
                   Line("playlist", <<prev.playlistName>>, <<>>)),
               Opt(Truthy(prev.playlistUrl),
                   Line("link", <<prev.playlistUrl>>, <<>>)) >>))
      /\ UNCHANGED <<sessions, history, clock>>

\* the stored vibe is kept whatever the new one
newVibeOf_stored(ai, current) ==
  IF Truthy(current.vibe) THEN current.vibe ELSE NULL

\* (vibe || current.vibe || "").toLowerCase() || null
newVibeOf(ai, current) ==
  Or(toLowerCase(Or(Or(Or(ai.vibe, NULL), current.vibe), <<>>)), NULL)

\* change_vibe up to the awaited search
ChangeVibe(r, ai) ==
  LET q            == reqs[r]
      baseMood     == q.current.mood
      baseLanguage == q.current.language
      newVibe      == newVibeOf(ai, q.current)
      moodQuery    == IF Truthy(newVibe) THEN baseMood \o <<" ">> \o newVibe
                      ELSE baseMood
      prev         == getLastHistory(history, q.from, baseMood, baseLanguage)
  IN  /\ q.pc = "classify"
      /\ ~StatsTurn(q, ai)
      /\ hasCurrentPlaylist(q.current)
      /\ IntentOr(ai.intent) = "change_vibe"
      /\ SetReq(r, [ q EXCEPT !.pc = "search", !.ai = ai,
                              !.branch = "change_vibe", !.searched = TRUE,
                              !.query = moodQuery, !.language = baseLanguage,
                              !.previous = prev,
                              !.excludeId = prev.playlistId ])
      /\ UNCHANGED <<sessions, history, clock>>

Rephrase(r, ai) ==
  LET q == reqs[r]
  IN  /\ FallsThrough(q, ai)
      /\ NothingExtracted(ai)
      /\ SetReq(r, WithReply([ q EXCEPT !.ai = ai, !.branch = "rephrase" ],
                             << Line("could-not-understand", <<>>, <<>>) >>))
      /\ UNCHANGED <<sessions, history, clock>>

AskLanguage(r, ai) ==
  LET q      == reqs[r]
      mood   == Or(ai.mood, NULL)
      vibe   == Or(ai.vibe, NULL)
      artist == Or(ai.artist, NULL)
      track  == Or(ai.track, NULL)
      intent == IntentOr(ai.intent)
      desc   == Or(Or(Or(mood, artist), track), TextLower(q))
  IN  /\ FallsThrough(q, ai)
      /\ ~NothingExtracted(ai)
      /\ ~Truthy(ai.language)
      /\ sessions' = MapSet(sessions, q.from,
           [ stage |-> "waiting_language", mood |-> mood, language |-> NULL,
             vibe |-> vibe, lastPlaylistId |-> NULL, lastArtist |-> artist,
             lastTrack |-> track, lastIntent |-> intent ])
      /\ SetReq(r, WithReply([ q EXCEPT !.ai = ai, !.branch = "ask_language" ],
                             << Line("got-it", <<desc>>, <<>>),
                                Line("which-language", <<>>, <<>>) >>))
      /\ UNCHANGED <<history, clock>>

\* fresh request with a language, up to the awaited search
FreshRequest(r, ai) ==
  LET q        == reqs[r]
      mood     == Or(ai.mood, NULL)
      language == Or(ai.language, NULL)
      vibe     == Or(ai.vibe, NULL)
      artist   == Or(ai.artist, NULL)
      track    == Or(ai.track, NULL)
      intent   == IntentOr(ai.intent)
      previous == IF Truthy(mood)
                  THEN getLastHistory(history, q.from, mood, language)
                  ELSE NoEntry
  IN  /\ FallsThrough(q, ai)
      /\ ~NothingExtracted(ai)
      /\ Truthy(ai.language)
      /\ SetReq(r, [ q EXCEPT
            !.pc = "search", !.ai = ai, !.branch = "fresh", !.searched = TRUE,
            !.query = buildQuery(intent, mood, vibe, artist, track,
                                 TextLower(q)),
            !.language = language, !.previous = previous,
            !.excludeId = previous.playlistId ])
      /\ UNCHANGED <<sessions, history, clock>>

\* nothing is written
Commit_skipped(from, store, mood, language, playlistMeta, session, t) ==
  /\ t = clock
  /\ UNCHANGED <<sessions, history, clock>>

\* addHistory(...) when store (the clock is read: t), then
\* sessions.set(from, session)
Commit(from, store, mood, language, playlistMeta, session, t) ==
  /\ IF store
     THEN /\ TotalEntries(history) < MaxHist
          /\ t \in Timestamps
          /\ history' = addHistory(history, from,
               [ mood |-> mood, language |-> language,
                 playlistId |-> playlistMeta.id,
                 playlistName |-> playlistMeta.name,
                 playlistUrl |-> playlistMeta.url,
                 lastUsedAt |-> t ])
          /\ clock' = t
     ELSE /\ t = clock
          /\ UNCHANGED <<history, clock>>
  /\ sessions' = MapSet(sessions, from, session)

\* the session is dropped when nothing is found
NotFound_forgets(r, q, tracks, lines, t) ==
  /\ t = clock
  /\ SetReq(r, WithReply([ q EXCEPT !.tracks = tracks, !.outcome = "empty" ],
                         lines))
  /\ sessions' = MapSet(sessions, q.from, IdleSession)
  /\ UNCHANGED <<history, clock>>

\* the search found nothing: the reply is composed, nothing is written
NotFound(r, q, tracks, lines, t) ==
  /\ t = clock
  /\ SetReq(r, WithReply([ q EXCEPT !.tracks = tracks, !.outcome = "empty" ],
                         lines))
  /\ UNCHANGED <<sessions, history, clock>>

Found(q, tracks, store) ==
  [ q EXCEPT !.tracks = tracks, !.outcome = "found",
             !.playlistId = tracks.playlist.id, !.appended = store ]

\* the awaited search of the waiting_language branch returned
WaitingLanguageResult(r, answer, t) ==
  LET q        == [ reqs[r] EXCEPT !.items = answer.items ]
      current  == q.current
      language == q.language
      mood     == Or(current.mood, NULL)
      vibe     == Or(current.vibe, NULL)
      artist   == Or(current.lastArtist, NULL)
      track    == Or(current.lastTrack, NULL)
      intent   == IntentOr(current.lastIntent)
      previous == q.previous
      tracks   == getPlaylistForMood(answer, q.excludeId)
      note     == IF previous # NoEntry
                  THEN PreviousNote(previous, previous.mood, previous.language)
                  ELSE <<>>
  IN  /\ q.pc = "search"
      /\ q.branch = "waiting_language"
      /\ ~answer.throws
      /\ IF NothingFound(tracks)
         THEN NotFound(r, q, tracks,
                note \o << Line("not-found-in-language", <<language>>, <<>>),
                           Line("try-another-mood-artist-language",
                                <<>>, <<>>) >>, t)
         ELSE /\ Commit(q.from, Truthy(mood), mood, language, tracks.playlist,
                    [ stage |-> "playlist_shown", mood |-> mood,
                      language |-> language, vibe |-> vibe,
                      lastPlaylistId |-> tracks.playlist.id,
                      lastArtist |-> artist, lastTrack |-> track,
                      lastIntent |-> intent ], t)
              /\ SetReq(r, WithReply(Found(q, tracks, Truthy(mood)),
                    note \o << Line("heres-your-request", <<language>>, <<>>) >>
                         \o RecommendationBody(tracks)))

\* the awaited search of the change_vibe branch returned
ChangeVibeResult(r, answer, t) ==
  LET q            == [ reqs[r] EXCEPT !.items = answer.items ]
      current      == q.current
      ai           == q.ai
      baseMood     == current.mood
      baseLanguage == current.language
      newVibe      == newVibeOf(ai, current)
      tracks       == getPlaylistForMood(answer, q.excludeId)
  IN  /\ q.pc = "search"
      /\ q.branch = "change_vibe"
      /\ ~answer.throws
      /\ IF NothingFound(tracks)
         THEN NotFound(r, q, tracks,
                << Line("no-new-vibe-playlist",
                        <<baseMood, baseLanguage>>, <<>>),
                   Line("try-another-mood", <<>>, <<>>) >>, t)
         ELSE /\ Commit(q.from, TRUE, baseMood, baseLanguage, tracks.playlist,
                    [ stage |-> "playlist_shown", mood |-> baseMood,
                      language |-> baseLanguage, vibe |-> newVibe,
                      lastPlaylistId |-> tracks.playlist.id,
                      lastArtist |-> Or(ai.artist, NULL),
                      lastTrack |-> Or(ai.track, NULL),
                      lastIntent |-> IntentOr(ai.intent) ], t)
              /\ SetReq(r, WithReply(Found(q, tracks, TRUE),
                    << Line("changing-vibe",
                            << Or(newVibe,
                                  <<"d","i","f","f","e","r","e","n","t">>),
                               baseMood, baseLanguage >>, <<>>) >>
                    \o RecommendationBody(tracks)))

\* the awaited search of the fresh-request branch returned
FreshResult(r, answer, t) ==
  LET q        == [ reqs[r] EXCEPT !.items = answer.items ]
      ai       == q.ai
      mood     == Or(ai.mood, NULL)
      language == Or(ai.language, NULL)
      vibe     == Or(ai.vibe, NULL)
      artist   == Or(ai.artist, NULL)
      track    == Or(ai.track, NULL)
      intent   == IntentOr(ai.intent)
      previous == q.previous
      tracks   == getPlaylistForMood(answer, q.excludeId)
      note     == IF previous # NoEntry /\ Truthy(mood)
                  THEN PreviousNote(previous, mood, language)
                  ELSE <<>>
      moodLabel == IF intent = "artist_search"
                   THEN IF Truthy(artist)
                        THEN <<"s","o","n","g","s"," ","b","y"," ">> \o artist
                        ELSE <<"y","o","u","r"," ","r","e","q","u","e","s","t">>
                   ELSE Or(mood, <<"y","o","u","r"," ","m","o","o","d">>)
  IN  /\ q.pc = "search"
      /\ q.branch = "fresh"
      /\ ~answer.throws
      /\ IF NothingFound(tracks)
         THEN NotFound(r, q, tracks,
                note \o << Line("not-found-for-request",
                                <<q.query, language>>, <<>>),
                           Line("try-another-combination", <<>>, <<>>) >>, t)
         ELSE /\ Commit(q.from, Truthy(mood), mood, language, tracks.playlist,
                    [ stage |-> "playlist_shown", mood |-> mood,
                      language |-> language, vibe |-> vibe,
                      lastPlaylistId |-> tracks.playlist.id,
                      lastArtist |-> artist, lastTrack |-> track,
                      lastIntent |-> intent ], t)
              /\ SetReq(r, WithReply(Found(q, tracks, Truthy(mood)),
                    note \o << Line("heres-a-playlist-for",
                                    <<moodLabel, language>>, <<>>) >>
                         \o RecommendationBody(tracks)))

\* the awaited search raised: control passes to the catch block
SearchRaises(r, answer) ==
  /\ reqs[r].pc = "search"
  /\ answer.throws
  /\ SetReq(r, [ reqs[r] EXCEPT !.pc = "apology", !.outcome = "throw" ])
  /\ UNCHANGED <<sessions, history, clock>>

\* the entry appended in the turn is taken back when the delivery fails
SendReturns_rollback(r, snd) ==
  LET q   == reqs[r]
      own == HistoryOf(history, q.from)
  IN  /\ q.pc = "send"
      /\ SetReq(r, IF snd = "throw"
                   THEN [ q EXCEPT !.sent = snd, !.pc = "apology" ]
                   ELSE Returned(q, snd, "none", 200))
      /\ history' = IF snd # "ok" /\ q.appended /\ own # <<>>
                    THEN MapSet(history, q.from, SubSeq(own, 1, Len(own) - 1))
                    ELSE history
      /\ UNCHANGED <<sessions, clock>>

\* await sendTwilioMessage(from, reply) came back: res.json({ ok: true }), or
\* it raised and control passes to the catch block
SendReturns(r, snd) ==
  /\ reqs[r].pc = "send"
  /\ SetReq(r, IF snd = "throw"
               THEN [ reqs[r] EXCEPT !.sent = snd, !.pc = "apology" ]
               ELSE Returned(reqs[r], snd, "none", 200))
  /\ UNCHANGED <<sessions, history, clock>>

\* catch (err): the apology is sent, then res.status(500); when the apology send
\* raises, the handler ends without a response (status 0)
ApologyReturns(r, ap) ==
  /\ reqs[r].pc = "apology"
  /\ SetReq(r, Returned(reqs[r], reqs[r].sent, ap,
                        IF ap = "throw" THEN 0 ELSE 500))
  /\ UNCHANGED <<sessions, history, clock>>

-----------------------------------------------------------------------------
(* Specification: turns are processed one at a time (a message is received   *)
(* only when no handler is running), in slot 1.                               *)

Next ==
  \/ \E from \in Senders, bodyRaw \in Bodies :
       Quiet /\ Receive(1, from, bodyRaw)
  \/ \E r \in Slots, ai \in TurnClassifications : Stats(r, ai)
  \/ \E r \in Slots, ai \in TurnClassifications : Repeat(r, ai)
  \/ \E r \in Slots, ai \in TurnClassifications : ChangeVibe(r, ai)
  \/ \E r \in Slots, ai \in TurnClassifications : Rephrase(r, ai)
  \/ \E r \in Slots, ai \in TurnClassifications : AskLanguage(r, ai)
  \/ \E r \in Slots, ai \in TurnClassifications : FreshRequest(r, ai)
  \/ \E r \in Slots, answer \in SearchAnswers, t \in 0..MaxClock :
       WaitingLanguageResult(r, answer, t)
  \/ \E r \in Slots, answer \in SearchAnswers, t \in 0..MaxClock :
       ChangeVibeResult(r, answer, t)
  \/ \E r \in Slots, answer \in SearchAnswers, t \in 0..MaxClock :
       FreshResult(r, answer, t)
  \/ \E r \in Slots, answer \in SearchAnswers : SearchRaises(r, answer)
  \/ \E r \in Slots, snd \in SendOutcomes : SendReturns(r, snd)
  \/ \E r \in Slots, ap \in SendOutcomes : ApologyReturns(r, ap)

Spec == Init /\ [][Next]_vars

-----------------------------------------------------------------------------
(* Specification of overlapping turns: the server starts a handler for every  *)
(* request it receives, so a second invocation may start while the first is   *)
(* suspended at an await.  Slot 1 serves u1; slot 2 serves u1 or u2.  The      *)
(* turns draw from fewer inputs: no stats command (the stats branch writes    *)
(* nothing), and every send succeeds.                                          *)

ConcurrentSenders(r) == IF r = 1 THEN {"u1"} ELSE Users

ConcurrentBodies == { <<" ","E","n">> }

ConcurrentClassifications ==
  { Classification(Sad, NULL, NULL, NULL, NULL, "playlist"),
    Classification(Sad, En, NULL, NULL, NULL, "playlist"),
    Classification(NULL, NULL, NULL, NULL, NULL, "repeat"),
    Classification(NULL, NULL, NULL, NULL, NULL, "change_vibe") }

ConcurrentAnswers ==
  { [ throws |-> TRUE, items |-> <<>>, tracks |-> <<>> ],
    [ throws |-> FALSE, items |-> <<>>, tracks |-> <<>> ],
    [ throws |-> FALSE, items |-> <<P1, P2>>, tracks |-> <<Track1>> ] }

ConcurrentSendOutcomes == {"ok"}

NextConcurrent ==
  \/ \E r \in Slots :
       \E from \in ConcurrentSenders(r), bodyRaw \in ConcurrentBodies :
         Receive(r, from, bodyRaw)
  \/ \E r \in Slots, ai \in ConcurrentClassifications : Repeat(r, ai)
  \/ \E r \in Slots, ai \in ConcurrentClassifications : ChangeVibe(r, ai)
  \/ \E r \in Slots, ai \in ConcurrentClassifications : Rephrase(r, ai)
  \/ \E r \in Slots, ai \in ConcurrentClassifications : AskLanguage(r, ai)
  \/ \E r \in Slots, ai \in ConcurrentClassifications : FreshRequest(r, ai)
  \/ \E r \in Slots, answer \in ConcurrentAnswers, t \in 0..MaxClock :
       WaitingLanguageResult(r, answer, t)
  \/ \E r \in Slots, answer \in ConcurrentAnswers, t \in 0..MaxClock :
       ChangeVibeResult(r, answer, t)
  \/ \E r \in Slots, answer \in ConcurrentAnswers, t \in 0..MaxClock :
       FreshResult(r, answer, t)
  \/ \E r \in Slots, answer \in ConcurrentAnswers : SearchRaises(r, answer)
  \/ \E r \in Slots, snd \in ConcurrentSendOutcomes : SendReturns(r, snd)
  \/ \E r \in Slots, ap \in ConcurrentSendOutcomes : ApologyReturns(r, ap)

SpecConcurrent == Init /\ [][NextConcurrent]_vars

-----------------------------------------------------------------------------
(* Specification of the query builder alone: a request holding any            *)
(* combination of present and absent fields, any intent and a message, and     *)
(* the step that builds its search query as the fresh-request branch does.     *)

QueryBodies == { <<" ","E","n">>, <<"S","t","a","t","s">> }

QueryClassifications ==
  [ mood : {NULL, Sad}, language : {NULL}, vibe : {NULL, Slow},
    artist : {NULL, Abba}, track : {NULL, Sos}, intent : Intents ]

InitQuery ==
  /\ sessions = [ u \in {} |-> IdleSession ]
  /\ history = [ u \in {} |-> <<>> ]
  /\ clock = 0
  /\ \E b \in QueryBodies, c \in QueryClassifications :
       reqs = [ r \in Slots |->
                  IF r = 1
                  THEN [ NoRequest EXCEPT !.pc = "query", !.from = "u1",
                                          !.body = b, !.ai = c ]
                  ELSE NoRequest ]

BuildQuery(r) ==
  LET q  == reqs[r]
      ai == q.ai
  IN  /\ q.pc = "query"
      /\ SetReq(r, [ q EXCEPT
            !.pc = "built",
            !.query = buildQuery(IntentOr(ai.intent), Or(ai.mood, NULL),
                                 Or(ai.vibe, NULL), Or(ai.artist, NULL),
                                 Or(ai.track, NULL), TextLower(q)) ])
      /\ UNCHANGED <<sessions, history, clock>>

NextQuery == \E r \in Slots : BuildQuery(r)

SpecQuery == InitQuery /\ [][NextQuery]_vars

-----------------------------------------------------------------------------
(* Specification of the history store's two readers alone: any stored list   *)
(* of a user, next to another user's list, a (mood, language) pair asked     *)
(* for, and the steps that look the pair up and that compute the statistics. *)

SadCap == <<"S","a","d">>
Happy  == <<"h","a","p","p","y">>
Hi     == <<"h","i">>

MaxStored == MaxHist + 1

StoredPairs == { <<Sad, En>>, <<SadCap, En>>, <<Sad, Hi>>, <<Happy, En>> }

StoredEntries ==
  { [ mood |-> p[1], language |-> p[2], playlistId |-> pl.id,
      playlistName |-> pl.name, playlistUrl |-> pl.url, lastUsedAt |-> t ] :
      p \in StoredPairs, pl \in {P1, P2}, t \in 0..MaxClock }

\* lists as addHistory builds them: timestamps never decrease along the list
StoredLists ==
  UNION { { l \in [ 1..n -> StoredEntries ] :
              \A i \in 1..(n - 1) : l[i].lastUsedAt <= l[i + 1].lastUsedAt } :
          n \in 0..MaxStored }

\* another user's entry, later than every entry of the lists above
OtherUsersEntry ==
  [ mood |-> Sad, language |-> En, playlistId |-> P2.id,
    playlistName |-> P2.name, playlistUrl |-> P2.url,
    lastUsedAt |-> MaxClock + 1 ]

AskedPairs == { <<SadCap, En>>, <<Sad, Hi>>, <<Happy, Hi>> }

InitStore ==
  /\ sessions = [ u \in {} |-> IdleSession ]
  /\ clock = MaxClock
  /\ \E l \in StoredLists :
       history = [ u \in (IF l = <<>> THEN {"u2"} ELSE Users) |->
                     IF u = "u1" THEN l ELSE <<OtherUsersEntry>> ]
  /\ \E p \in AskedPairs :
       reqs = [ r \in Slots |->
                  IF r = 1
                  THEN [ NoRequest EXCEPT
                           !.pc = "ask", !.from = "u1",
                           !.ai = Classification(p[1], p[2], NULL, NULL, NULL,
                                                 "playlist") ]
                  ELSE NoRequest ]

\* previous = getLastHistory(from, mood, language); excludeId = previous?.playlistId
LookUp(r) ==
  LET q    == reqs[r]
      prev == getLastHistory(history, q.from, q.ai.mood, q.ai.language)
  IN  /\ q.pc = "ask"
      /\ SetReq(r, [ q EXCEPT !.pc = "looked", !.previous = prev,
                              !.excludeId = prev.playlistId ])
      /\ UNCHANGED <<sessions, history, clock>>

\* const stats = getUserStats(from), rendered into the reply
CountStats(r) ==
  LET q == reqs[r]
  IN  /\ q.pc = "ask"
      /\ SetReq(r, [ q EXCEPT !.pc = "counted",
                              !.reply = StatsReply(getUserStats(history, q.from)) ])
      /\ UNCHANGED <<sessions, history, clock>>

NextStore == \E r \in Slots : LookUp(r) \/ CountStats(r)

SpecStore == InitStore /\ [][NextStore]_vars

-----------------------------------------------------------------------------
(* The classifier: classifyMoodAndLanguage (openaiClient.ts 392-539).  The    *)
(* remote call is an input (it has no key, raises, answers with text that is  *)
(* not JSON, or answers with an object); the patterns of the artist repair    *)
(* are matched on the words of the message, which are separated by spaces     *)
(* and hold letters only.                                                      *)

\* the words of a message
RECURSIVE Words(_)
Words(s) ==
  LET t == TrimLeft(s)
  IN  IF t = <<>> THEN <<>>
      ELSE LET stops == { i \in 1..Len(t) : IsSpace(t[i]) }
               n     == IF stops = {} THEN Len(t) + 1
                        ELSE CHOOSE i \in stops : \A j \in stops : i <= j
           IN  <<SubSeq(t, 1, n - 1)>> \o Words(SubSeq(t, n, Len(t)))

\* words i.. of the message, as the text a capture group holds once trimmed
Rest(words, i) == join(SubSeq(words, i, Len(words)))

Least(S) == CHOOSE i \in S : \A j \in S : i <= j

\* .replace(/["']/g, "")
StripQuotes(s) == SelectSeq(s, LAMBDA c : c \notin {"\"", "'"})

ByKeywords ==
  { <<"s","o","n","g","s">>,
    <<"s","o","n","g">>,
    <<"m","u","s","i","c">>,
    <<"t","r","a","c","k","s">>,
    <<"t","r","a","c","k">>,
    <<"a","l","b","u","m","s">>,
    <<"a","l","b","u","m">>,
    <<"p","l","a","y">>,
    <<"p","l","a","y","l","i","s","t">> }

ByOrFrom == { <<"b","y">>, <<"f","r","o","m">> }

\* m.match(byRegex)[1].trim(): the words behind the first "<keyword> by|from"
byMatch(words) ==
  LET hits == { i \in 1..(Len(words) - 2) :
                  /\ toLowerCase(words[i]) \in ByKeywords
                  /\ toLowerCase(words[i + 1]) \in ByOrFrom }
  IN  IF hits = {} THEN NULL ELSE Rest(words, Least(hits) + 2)

ArtistFirstKeywords ==
  { <<"s","o","n","g","s">>,
    <<"s","o","n","g">>,
    <<"m","u","s","i","c">>,
    <<"t","r","a","c","k","s">>,
    <<"p","l","a","y","l","i","s","t">> }

GenericWords ==
  { <<"s","l","o","w">>,
    <<"m","o","r","e">>,
    <<"s","o","m","e">>,
    <<"f","e","w">>,
    <<"i","'","m">>,
    <<"i","m">>,
    <<"p","l","a","y">>,
    <<"g","i","v","e">>,
    <<"n","e","e","d">>,
    <<"w","a","n","t">> }

\* m.match(artistFirstRegex)[1].trim(): the words in front of the first
\* keyword that is not the first word
artistFirstMatch(words) ==
  LET hits == { k \in 2..Len(words) :
                  toLowerCase(words[k]) \in ArtistFirstKeywords }
      candidate == join(SubSeq(words, 1, Least(hits) - 1))
  IN  IF hits = {} \/ Len(candidate) < 2 THEN NULL ELSE candidate

Pronouns ==
  { <<"m","e">>,
    <<"t","h","a","t">>,
    <<"i","t">>,
    <<"t","h","i","s">>,
    <<"t","h","e","m">> }

\* m.match(simpleBy)[1].trim(): the words behind the first "by"
simpleByMatch(words) ==
  LET hits == { i \in 1..(Len(words) - 1) : toLowerCase(words[i]) = <<"b","y">> }
      candidate == Rest(words, Least(hits) + 1)
  IN  IF hits = {} \/ Len(candidate) < 2 THEN NULL ELSE candidate

\* the later pattern overrides the earlier one
repairArtist_last(artist, words) ==
  LET by    == byMatch(words)
      first == artistFirstMatch(words)
      plain == simpleByMatch(words)
  IN  IF Truthy(artist) THEN artist
      ELSE IF Truthy(plain) /\ toLowerCase(plain) \notin Pronouns
           THEN StripQuotes(plain)
      ELSE IF Truthy(first) /\ toLowerCase(first) \notin GenericWords
           THEN StripQuotes(first)
      ELSE IF Truthy(by) THEN StripQuotes(by)
      ELSE NULL

\* the three `if (!artist && match)` blocks in their order: the artist after
\* the heuristics
repairArtist(artist, words) ==
  LET by    == byMatch(words)
      first == artistFirstMatch(words)
      plain == simpleByMatch(words)
      a1 == IF ~Truthy(artist) /\ Truthy(by) THEN StripQuotes(by) ELSE artist
      a2 == IF ~Truthy(a1) /\ Truthy(first)
               /\ toLowerCase(first) \notin GenericWords
            THEN StripQuotes(first) ELSE a1
      a3 == IF ~Truthy(a2) /\ Truthy(plain)
               /\ toLowerCase(plain) \notin Pronouns
            THEN StripQuotes(plain) ELSE a2
  IN  a3

\* every string, blank or not, is kept
toStringOrNull_kept(v) == v

\* typeof v === "string" && v.trim() ? v.trim() : null
toStringOrNull(v) == IF v # NULL /\ trim(v) # <<>> THEN trim(v) ELSE NULL

\* let intent = "playlist"; if (typeof parsed.intent === "string") { ... }
intentOf(raw) ==
  IF raw = NULL THEN "playlist"
  ELSE LET i == toLowerCase(trim(raw))
       IN  IF i = <<"a","r","t","i","s","t","_","s","e","a","r","c","h">>
           THEN "artist_search"
           ELSE IF i = <<"r","e","p","e","a","t">> THEN "repeat"
           ELSE IF i = <<"c","h","a","n","g","e","_","v","i","b","e">>
           THEN "change_vibe"
           ELSE IF i = <<"p","l","a","y","l","i","s","t">> THEN "playlist"
           ELSE "other"

\* x ? x.toLowerCase() : null
LowerOrNull(x) == IF Truthy(x) THEN toLowerCase(x) ELSE NULL

\* parsed = {}
EmptyParsed ==
  [ mood |-> NULL, language |-> NULL, vibe |-> NULL, artist |-> NULL,
    track |-> NULL, intent |-> NULL ]

classifyMoodAndLanguage(message, completion) ==
  IF completion.kind = "nokey"
  THEN Classification(Or(toLowerCase(trim(message)), NULL),
                      NULL, NULL, NULL, NULL, "playlist")
  ELSE LET parsed == IF completion.kind = "answer" THEN completion.parsed
                     ELSE EmptyParsed
           mood     == toStringOrNull(parsed.mood)
           language == toStringOrNull(parsed.language)
           vibe     == toStringOrNull(parsed.vibe)
           track    == toStringOrNull(parsed.track)
           given    == toStringOrNull(parsed.artist)
           intent0  == intentOf(parsed.intent)
           found    == repairArtist(given, Words(message))
           intent1  == IF found # given
                          /\ intent0 \notin {"repeat", "change_vibe"}
                       THEN "artist_search" ELSE intent0
           artist   == LowerOrNull(found)
           intent   == IF intent1 \notin {"repeat", "change_vibe"}
                          /\ Truthy(artist)
                       THEN "artist_search" ELSE intent1
       IN  Classification(LowerOrNull(mood), LowerOrNull(language),
                          LowerOrNull(vibe), artist, LowerOrNull(track),
                          intent)

-----------------------------------------------------------------------------
(* Specification of the classifier alone: a message, an outcome of the       *)
(* remote call, and the step that returns the classification.                *)

Drake == <<"d","r","a","k","e">>

ClassifiedMessages ==
  { <<" ","S","a","d">>,
    <<"S","o","n","g","s"," ","b","y"," ","A","b","b","a">>,
    <<"D","r","a","k","e"," ","s","o","n","g","s"," ","b","y"," ","A","b","b","a">>,
    <<"D","r","a","k","e"," ","s","o","n","g","s"," ","n","o","t"," ","b","y"," ","A","b","b","a">>,
    <<"S","o","s"," ","b","y"," ","A","b","b","a">>,
    <<"s","l","o","w"," ","s","o","n","g","s">> }

\* values of a field of the parsed answer: unset, empty, blank, or the value
\* with a capital and a space in front
RawValues(v) ==
  { NULL, <<>>, <<" ">>, <<" ">> \o <<UpperAlpha[CHOOSE i \in 1..26 :
                                         LowerAlpha[i] = v[1]]>> \o Tail(v) }

RawIntents ==
  { NULL,
    <<"p","l","a","y","l","i","s","t">>,
    <<" ","A","r","t","i","s","t","_","S","e","a","r","c","h">>,
    <<"r","e","p","e","a","t">>,
    <<"c","h","a","n","g","e","_","v","i","b","e">>,
    <<"u","s","e","r","_","s","t","a","t","s">>,
    <<>> }

Completions ==
  { [ kind |-> k, parsed |-> EmptyParsed ] :
      k \in {"nokey", "error", "unparsable"} }
  \cup
  { [ kind |-> "answer",
      parsed |-> [ mood |-> m, language |-> l, vibe |-> v, artist |-> a,
                   track |-> t, intent |-> i ] ] :
      m \in RawValues(Sad), l \in {NULL, <<"E","n">>},
      v \in {NULL, <<" ">>, <<"S","l","o","w">>}, a \in RawValues(Abba),
      t \in {NULL, <<" ">>, <<"S","o","s">>}, i \in RawIntents }

InitClassify ==
  /\ sessions = [ u \in {} |-> IdleSession ]
  /\ history = [ u \in {} |-> <<>> ]
  /\ clock = 0
  /\ \E m \in ClassifiedMessages, c \in Completions :
       reqs = [ r \in Slots |->
                  IF r = 1
                  THEN [ NoRequest EXCEPT !.pc = "classifying", !.from = "u1",
                                          !.body = m, !.completion = c ]
                  ELSE NoRequest ]

\* ai = await classifyMoodAndLanguage(text)
Classify(r) ==
  LET q == reqs[r]
  IN  /\ q.pc = "classifying"
      /\ SetReq(r, [ q EXCEPT
            !.pc = "classified", !.classified = TRUE,
            !.ai = classifyMoodAndLanguage(normalizeText(q.body),
                                           q.completion) ])
      /\ UNCHANGED <<sessions, history, clock>>

NextClassify == \E r \in Slots : Classify(r)

SpecClassify == InitClassify /\ [][NextClassify]_vars

-----------------------------------------------------------------------------
(* Specification of whole dialogues: the turns of the sequential             *)
(* specification, with the classification of each message computed by the    *)
(* classifier from the message and the outcome of the remote call.           *)

Answered(mood, language, vibe, intent) ==
  [ kind |-> "answer",
    parsed |-> [ EmptyParsed EXCEPT !.mood = mood, !.language = language,
                                    !.vibe = vibe, !.intent = intent ] ]

SongsByDrake == <<"S","o","n","g","s"," ","b","y"," ","D","r","a","k","e">>
MyPlays      == <<"M","y"," ","p","l","a","y","s">>

\* a message and what the remote classifier makes of it: an artist request
\* the classifier extracts nothing from or fails on, a language, a question
\* about the user's plays taken for intent user_stats, the stats command, a
\* mood with a language, a track alone, a repeat and a change of vibe
DialogueTurns ==
  { [ body |-> SongsByDrake, completion |-> Answered(NULL, NULL, NULL, NULL) ],
    [ body |-> SongsByDrake,
      completion |-> [ kind |-> "error", parsed |-> EmptyParsed ] ],
    [ body |-> <<" ","E","n">>,
      completion |-> Answered(NULL, NULL, NULL, <<"p","l","a","y","l","i","s","t">>) ],
    [ body |-> MyPlays,
      completion |-> Answered(NULL, NULL, NULL, <<"u","s","e","r","_","s","t","a","t","s">>) ],
    [ body |-> <<"S","t","a","t","s">>,
      completion |-> Answered(NULL, NULL, NULL, NULL) ],
    [ body |-> <<"S","a","d">>,
      completion |-> Answered(<<"S","a","d">>, <<"E","n">>, NULL,
                              <<"p","l","a","y","l","i","s","t">>) ],
    [ body |-> <<"S","o","s">>,
      completion |->
        [ kind |-> "answer",
          parsed |-> [ EmptyParsed EXCEPT
                         !.track = <<"S","o","s">>,
                         !.intent = <<"p","l","a","y","l","i","s","t">> ] ] ],
    [ body |-> <<"A","g","a","i","n">>,
      completion |-> Answered(NULL, NULL, NULL, <<"r","e","p","e","a","t">>) ],
    [ body |-> <<"S","l","o","w","e","r">>,
      completion |-> Answered(NULL, NULL, <<"S","l","o","w">>,
                              <<"c","h","a","n","g","e","_","v","i","b","e">>) ] }

\* what classifyMoodAndLanguage(text) can return to the handler in slot r
ClassifiedFor(r) ==
  { classifyMoodAndLanguage(normalizeText(t.body), t.completion) :
      t \in { u \in DialogueTurns : u.body = reqs[r].body } }

NextDialogue ==
  \/ \E t \in DialogueTurns : Quiet /\ Receive(1, "u1", t.body)
  \/ \E r \in Slots : \E ai \in ClassifiedFor(r) : Stats(r, ai)
  \/ \E r \in Slots : \E ai \in ClassifiedFor(r) : Repeat(r, ai)
  \/ \E r \in Slots : \E ai \in ClassifiedFor(r) : ChangeVibe(r, ai)
  \/ \E r \in Slots : \E ai \in ClassifiedFor(r) : Rephrase(r, ai)
  \/ \E r \in Slots : \E ai \in ClassifiedFor(r) : AskLanguage(r, ai)
  \/ \E r \in Slots : \E ai \in ClassifiedFor(r) : FreshRequest(r, ai)
  \/ \E r \in Slots, answer \in SearchAnswers, t \in 0..MaxClock :
       WaitingLanguageResult(r, answer, t)
  \/ \E r \in Slots, answer \in SearchAnswers, t \in 0..MaxClock :
       ChangeVibeResult(r, answer, t)
  \/ \E r \in Slots, answer \in SearchAnswers, t \in 0..MaxClock :
       FreshResult(r, answer, t)
  \/ \E r \in Slots, answer \in SearchAnswers : SearchRaises(r, answer)
  \/ \E r \in Slots, snd \in SendOutcomes : SendReturns(r, snd)
  \/ \E r \in Slots, ap \in SendOutcomes : ApologyReturns(r, ap)

SpecDialogue == Init /\ [][NextDialogue]_vars

-----------------------------------------------------------------------------
(* Specification of the search client alone: a request holding any answer of  *)
(* the provider (playlist items with or without an id, repeated or not) and    *)
(* any excluded id, and the step that picks the playlist and its alternate.    *)

P3 == [ id |-> <<"p","3">>, name |-> <<"D","u","s","k">>, url |-> <<"l","3">> ]

\* an item of the provider's answer that has no id
NoIdItem == [ id |-> NULL, name |-> <<"V","o","i","d">>, url |-> NULL ]

SearchedItems == { P1, P2, P3, NoIdItem }

\* largest number of items in an answer of this specification
MaxItems == MaxCands + 1

\* excludePlaylistId: undefined, or the id of a playlist
ExcludedIds == { NULL, P1.id, P2.id, P3.id }

InitSearch ==
  /\ sessions = [ u \in {} |-> IdleSession ]
  /\ history = [ u \in {} |-> <<>> ]
  /\ clock = 0
  /\ \E items \in UNION { [1..k -> SearchedItems] : k \in 0..MaxItems },
        excludePlaylistId \in ExcludedIds :
       reqs = [ r \in Slots |->
                  IF r = 1
                  THEN [ NoRequest EXCEPT
                           !.pc = "searching", !.from = "u1",
                           !.items = items, !.excludeId = excludePlaylistId ]
                  ELSE NoRequest ]

\* tracks = await getPlaylistForMood(searchQuery, language, excludeId)
SearchPlaylists(r) ==
  LET q      == reqs[r]
      answer == [ throws |-> FALSE, items |-> q.items, tracks |-> <<Track1>> ]
  IN  /\ q.pc = "searching"
      /\ SetReq(r, [ q EXCEPT !.pc = "searched",
                              !.tracks = getPlaylistForMood(answer, q.excludeId) ])
      /\ UNCHANGED <<sessions, history, clock>>

NextSearch == \E r \in Slots : SearchPlaylists(r)

SpecSearch == InitSearch /\ [][NextSearch]_vars

-----------------------------------------------------------------------------
(* Properties.  A request is "in flight" between its first and its last       *)
(* statement; the awaited search of request r returns in the step that takes  *)
(* it from pc "search" to pc "send".                                           *)

InFlight(q) == q.pc \notin {"idle", "done"}

SearchReturns(r) == reqs[r].pc = "search" /\ reqs'[r].pc = "send"

\* the list l is the list k with exactly one entry appended at its end
OneAppended(k, l) == Len(l) = Len(k) + 1 /\ SubSeq(l, 1, Len(k)) = k

\* C1: whenever a user's session is in stage playlist_shown, its lastPlaylistId
\* is set, and if the session's mood is set, lastPlaylistId is the playlistId of
\* the entry appended last to that user's history.
C1_ShownPlaylistIsLastEntry ==
  \A u \in DOMAIN sessions :
    sessions[u].stage = "playlist_shown" =>
      /\ Truthy(sessions[u].lastPlaylistId)
      /\ Truthy(sessions[u].mood) =>
           /\ HistoryOf(history, u) # <<>>
           /\ HistoryOf(history, u)[Len(HistoryOf(history, u))].playlistId
                = sessions[u].lastPlaylistId

\* a session with a mood in stage playlist_shown over a history of two entries
\* naming different playlists
C1_Witness ==
  \E u \in DOMAIN sessions :
    /\ sessions[u].stage = "playlist_shown"
    /\ Truthy(sessions[u].mood)
    /\ Len(HistoryOf(history, u)) = 2
    /\ history[u][1].playlistId # history[u][2].playlistId

\* C2: every turn whose search returned a non-empty result (and so produced a
\* recommendation reply) appends exactly one entry to that user's history,
\* whatever the classification held, an artist-only request with no mood
\* included.
C2_EveryRecommendationAppends ==
  [][ \A r \in Slots :
        (SearchReturns(r) /\ reqs'[r].tracks.tracks # <<>>) =>
          OneAppended(HistoryOf(history, reqs[r].from),
                      HistoryOf(history', reqs[r].from)) ]_vars

\* C3: the history changes only by one entry being appended at the end of one
\* user's list, and only in the step in which a search returned a result to a
\* request of that user: no entry is modified, reordered or removed.
C3_HistoryAppendOnly ==
  [][ history' # history =>
        \E r \in Slots :
          /\ SearchReturns(r)
          /\ reqs'[r].tracks.tracks # <<>>
          /\ DOMAIN history' = DOMAIN history \cup {reqs[r].from}
          /\ \A u \in DOMAIN history \ {reqs[r].from} : history'[u] = history[u]
          /\ OneAppended(HistoryOf(history, reqs[r].from),
                         history'[reqs[r].from]) ]_vars

\* a second, different entry was just appended behind an existing one
C3_Witness ==
  \E r \in Slots :
    /\ reqs[r].pc = "send"
    /\ reqs[r].tracks.tracks # <<>>
    /\ reqs[r].branch = "change_vibe"
    /\ Len(HistoryOf(history, reqs[r].from)) = 2
    /\ history[reqs[r].from][1] # history[reqs[r].from][2]

\* the search of request q has come back with no tracks
CameBackEmpty(q) ==
  /\ q.pc \in {"send", "apology"}
  /\ q.searched
  /\ q.outcome # "throw"
  /\ q.tracks.tracks = <<>>

\* C4: in a turn whose search returns nothing (in the waiting_language, the
\* change_vibe or the fresh-request branch) no step up to the search, at its
\* return or after it changes the sessions or the history, and the user's
\* session is the one the turn started from.
C4_EmptySearchChangesNothing ==
  [][ \A r \in Slots :
        /\ reqs'[r].pc = "search" => UNCHANGED <<sessions, history>>
        /\ (CameBackEmpty(reqs[r]) \/ CameBackEmpty(reqs'[r])) =>
             UNCHANGED <<sessions, history>>
        /\ CameBackEmpty(reqs'[r]) =>
             SessionOf(sessions', reqs'[r].from) = reqs'[r].current ]_vars

\* an empty search in each of the three branches, the change_vibe one over a
\* session and a history that hold something
C4_Witness ==
  \E r \in Slots :
    /\ CameBackEmpty(reqs[r])
    /\ reqs[r].branch = "change_vibe"
    /\ HistoryOf(history, reqs[r].from) # <<>>
    /\ Truthy(SessionOf(sessions, reqs[r].from).vibe)

\* l is s with every character lower-cased
LowerCased(l, s) ==
  Len(l) = Len(s) /\ \A i \in 1..Len(s) : l[i] = LowerChar(s[i])

\* C5: a message received in stage waiting_language is never handed to the
\* classifier; its trimmed, lower-cased text is the language of the turn, and
\* the mood stored in the session is not replaced (a written history entry
\* carries that mood and that language).
C5_LanguageTakenVerbatim ==
  \A r \in Slots :
    LET q == reqs[r]
        h == HistoryOf(history, q.from)
    IN  (InFlight(q) /\ q.current.stage = "waiting_language") =>
          /\ q.pc # "classify"
          /\ ~q.classified
          /\ q.ai = NoClassification
          /\ LowerCased(q.language, trim(q.body))
          /\ SessionOf(sessions, q.from).mood = q.current.mood
          /\ (q.pc = "send" /\ q.tracks.tracks # <<>>) =>
               /\ SessionOf(sessions, q.from).language = q.language
               /\ Truthy(q.current.mood) =>
                    /\ h # <<>>
                    /\ h[Len(h)].mood = q.current.mood
                    /\ h[Len(h)].language = q.language

\* a language typed with a capital resumed a request that had a mood
C5_Witness ==
  \E r \in Slots :
    /\ reqs[r].pc = "send"
    /\ reqs[r].current.stage = "waiting_language"
    /\ reqs[r].current.mood = Sad
    /\ reqs[r].body = <<" ","E","n">>
    /\ reqs[r].tracks.tracks # <<>>

\* C6: a turn received in stage waiting_language has exactly two outcomes: the
\* search found something and the session is playlist_shown with the lower-cased
\* message as language, the found playlist as lastPlaylistId and the stored
\* mood, vibe, artist, track and intent carried over; or the session is still
\* the waiting_language session the turn started from.
C6_WaitingLanguageOutcomes ==
  \A r \in Slots :
    LET q   == reqs[r]
        cur == q.current
        now == SessionOf(sessions, q.from)
    IN  (q.pc \in {"send", "apology"} /\ cur.stage = "waiting_language") =>
          IF q.tracks.tracks # <<>>
          THEN now = [ stage |-> "playlist_shown", mood |-> cur.mood,
                       language |-> toLowerCase(trim(q.body)),
                       vibe |-> cur.vibe,
                       lastPlaylistId |-> q.tracks.playlist.id,
                       lastArtist |-> cur.lastArtist,
                       lastTrack |-> cur.lastTrack,
                       lastIntent |-> cur.lastIntent ]
          ELSE now = cur

\* an artist request that waited for its language got a playlist
C6_Witness ==
  \E r \in Slots :
    /\ reqs[r].pc = "send"
    /\ reqs[r].current.stage = "waiting_language"
    /\ reqs[r].current.lastIntent = "artist_search"
    /\ reqs[r].tracks.tracks # <<>>
    /\ SessionOf(sessions, reqs[r].from).stage = "playlist_shown"

\* the message is one of the literal stats commands
StatsLiteral(body) ==
  toLowerCase(trim(body)) \in
    { <<"s","t","a","t","s">>,
      <<"m","y"," ","s","t","a","t","s">>,
      <<"s","h","o","w"," ","m","y"," ","s","t","a","t","s">> }

StatsCommandTurn(q) == InFlight(q) /\ StatsLiteral(q.body)

\* what a step of request r does when its message is a stats command: it
\* changes neither sessions nor history, starts no search, answers the
\* classifier's return with the stats reply (the no-data reply over an empty
\* history) and, unless the send raised, responds 200
StatsCommandStep(r) ==
  LET h == HistoryOf(history, reqs[r].from)
  IN  /\ UNCHANGED <<sessions, history>>
      /\ ~reqs'[r].searched
      /\ reqs[r].pc = "classify" =>
           /\ reqs'[r].pc = "send"
           /\ reqs'[r].branch = "stats"
           /\ IF h = <<>>
              THEN reqs'[r].reply[1] = Line("no-stats-yet", <<>>, <<>>)
              ELSE /\ reqs'[r].reply[1] = Line("stats-title", <<>>, <<>>)
                   /\ reqs'[r].reply[2] = Line("stats-total", <<>>, <<Len(h)>>)
      /\ (reqs[r].pc = "send" /\ reqs'[r].sent # "throw") =>
           reqs'[r].status = 200

\* C7 (as stated): in every stage, waiting_language included, a literal stats
\* command produces the stats reply, leaves session and history unchanged and
\* invokes no search.
C7_StatsInEveryStage ==
  [][ \A r \in Slots :
        (StatsCommandTurn(reqs[r]) \/ StatsCommandTurn(reqs'[r])) =>
          StatsCommandStep(r) ]_vars

StatsCommandTurnOutsideWaiting(q) ==
  StatsCommandTurn(q) /\ q.current.stage # "waiting_language"

\* C7 (amended): in the stages idle and playlist_shown a literal stats command
\* produces the stats reply (the no-data reply for a user with no history, with
\* no error), leaves session and history unchanged and invokes no search.
C7_StatsOutsideWaitingLanguage ==
  [][ \A r \in Slots :
        ( StatsCommandTurnOutsideWaiting(reqs[r])
          \/ StatsCommandTurnOutsideWaiting(reqs'[r]) ) =>
          StatsCommandStep(r) ]_vars

\* the stats reply is about to be sent to a user with a shown playlist and a
\* history
C7_Witness ==
  \E r \in Slots :
    /\ reqs[r].pc = "send"
    /\ reqs[r].branch = "stats"
    /\ StatsLiteral(reqs[r].body)
    /\ reqs[r].current.stage = "playlist_shown"
    /\ HistoryOf(history, reqs[r].from) # <<>>

\* C8: in stage playlist_shown with lastPlaylistId set, a message classified
\* repeat (and not a stats command) is answered from the stored history entry:
\* no search is started and the session is left as it was.
C8_RepeatAnsweredFromHistory ==
  \A r \in Slots :
    LET q == reqs[r]
    IN  ( /\ q.pc \in {"search", "send", "apology"}
          /\ q.current.stage = "playlist_shown"
          /\ Truthy(q.current.lastPlaylistId)
          /\ q.ai.intent = "repeat"
          /\ ~StatsLiteral(q.body) ) =>
          /\ q.branch = "repeat"
          /\ ~q.searched
          /\ SessionOf(sessions, q.from) = q.current

\* C9: the id a change_vibe turn asks the search to exclude is the session's
\* lastPlaylistId.
C9_ChangeVibeExcludesLastPlaylist ==
  \A r \in Slots :
    (InFlight(reqs[r]) /\ reqs[r].branch = "change_vibe") =>
      reqs[r].excludeId = reqs[r].current.lastPlaylistId

\* C10: a fresh request with a language asks the search to exclude the playlist
\* of the most recent history match for its (mood, language), or nothing; when
\* the search returns a result the session is playlist_shown with the
\* classified fields and the new playlist id, and the user's last history entry
\* is (mood, language, that playlist).
C10_FreshRequestStoresAndAppends ==
  \A r \in Slots :
    LET q   == reqs[r]
        ai  == q.ai
        h   == HistoryOf(history, q.from)
        now == SessionOf(sessions, q.from)
    IN  q.branch = "fresh" =>
          /\ q.pc = "search" =>
               q.excludeId =
                 getLastHistory(history, q.from, ai.mood, ai.language).playlistId
          /\ (q.pc = "send" /\ q.tracks.tracks # <<>>) =>
               /\ now = [ stage |-> "playlist_shown", mood |-> ai.mood,
                          language |-> ai.language, vibe |-> ai.vibe,
                          lastPlaylistId |-> q.tracks.playlist.id,
                          lastArtist |-> ai.artist, lastTrack |-> ai.track,
                          lastIntent |-> IntentOr(ai.intent) ]
               /\ h # <<>>
               /\ h[Len(h)].mood = ai.mood
               /\ h[Len(h)].language = ai.language
               /\ h[Len(h)].playlistId = q.tracks.playlist.id

\* The classification ai of the message of request q is a fresh one: the
\* message is not a stats command, and it is not a repeat or change_vibe
\* follow-up to a shown playlist.
FreshClassification(q, ai) ==
  /\ ~StatsLiteral(q.body)
  /\ ai.intent # "user_stats"
  /\ ~( /\ q.current.stage = "playlist_shown"
        /\ Truthy(q.current.lastPlaylistId)
        /\ ai.intent \in {"repeat", "change_vibe"} )

\* the classifier's answer reaches request r in this step
ClassifierReturns(r) == reqs[r].pc = "classify" /\ reqs'[r].pc # "classify"

\* C11: a fresh classification that extracted a mood, an artist or a track but
\* no language overwrites the session with stage waiting_language holding the
\* classified mood, vibe, artist, track and intent, puts the language question
\* in the reply, starts no search and leaves the history unchanged.
C11_LanguageMissingAsks ==
  [][ \A r \in Slots :
        LET ai  == reqs'[r].ai
            now == SessionOf(sessions', reqs[r].from)
        IN  ( /\ ClassifierReturns(r)
              /\ FreshClassification(reqs[r], ai)
              /\ (Truthy(ai.mood) \/ Truthy(ai.artist) \/ Truthy(ai.track))
              /\ ~Truthy(ai.language) ) =>
              /\ now.stage = "waiting_language"
              /\ now.mood = ai.mood
              /\ now.vibe = ai.vibe
              /\ now.lastArtist = ai.artist
              /\ now.lastTrack = ai.track
              /\ now.lastIntent = ai.intent
              /\ reqs'[r].pc = "send"
              /\ ~reqs'[r].searched
              /\ reqs'[r].reply[Len(reqs'[r].reply)]
                   = Line("which-language", <<>>, <<>>)
              /\ history' = history ]_vars

\* the language question is about to be sent and the session of a shown
\* playlist has been overwritten
C11_Witness ==
  \E r \in Slots :
    /\ reqs[r].pc = "send"
    /\ reqs[r].branch = "ask_language"
    /\ reqs[r].current.stage = "playlist_shown"
    /\ reqs[r].ai.mood = Sad
    /\ SessionOf(sessions, reqs[r].from).stage = "waiting_language"

\* C12: a fresh classification that extracted no mood, no artist and no track
\* (the classifier call having failed included) is answered with the request
\* to rephrase; sessions and history are unchanged and no search is started.
C12_NothingExtractedRephrases ==
  [][ \A r \in Slots :
        LET ai == reqs'[r].ai
        IN  ( /\ ClassifierReturns(r)
              /\ FreshClassification(reqs[r], ai)
              /\ ~Truthy(ai.mood) /\ ~Truthy(ai.artist) /\ ~Truthy(ai.track) )
            =>
              /\ UNCHANGED <<sessions, history>>
              /\ reqs'[r].pc = "send"
              /\ ~reqs'[r].searched
              /\ reqs'[r].reply = << Line("could-not-understand", <<>>, <<>>) >>
      ]_vars

\* the classifier failed on a message of a user with a shown playlist, and the
\* request to rephrase is about to be sent
C12_Witness ==
  \E r \in Slots :
    /\ reqs[r].pc = "send"
    /\ reqs[r].branch = "rephrase"
    /\ reqs[r].ai = NoClassification
    /\ reqs[r].current.stage = "playlist_shown"
    /\ SessionOf(sessions, reqs[r].from) = reqs[r].current

\* C13: a message classified repeat while the user has no active result (no
\* lastPlaylistId) is not answered with the language question or with a new
\* recommendation: no search is started and the session is left as it was.
C13_RepeatWithoutResult ==
  \A r \in Slots :
    LET q == reqs[r]
    IN  ( /\ q.pc \in {"search", "send", "apology"}
          /\ q.ai.intent = "repeat"
          /\ ~Truthy(q.current.lastPlaylistId)
          /\ ~StatsLiteral(q.body) ) =>
          /\ ~q.searched
          /\ q.branch \notin {"ask_language", "fresh"}
          /\ SessionOf(sessions, q.from) = q.current

\* the user whose message request r is processing in this step
ServedUser(r) == IF InFlight(reqs[r]) THEN reqs[r].from ELSE reqs'[r].from

\* C14: under any interleaving of requests, a step of a request of user A
\* leaves the session and the history of every other user B as they were, and
\* what the request holds of the stores (its session snapshot when it starts,
\* its previous entry) comes from A's own session and history.
C14_OtherUsersUntouched ==
  [][ \A r \in Slots :
        reqs'[r] # reqs[r] =>
          /\ \A u \in Users \ {ServedUser(r)} :
               /\ SessionOf(sessions', u) = SessionOf(sessions, u)
               /\ HistoryOf(history', u) = HistoryOf(history, u)
          /\ ~InFlight(reqs[r]) =>
               reqs'[r].current = SessionOf(sessions, reqs'[r].from)
          /\ (InFlight(reqs'[r]) /\ reqs'[r].previous # reqs[r].previous
                /\ reqs'[r].previous # NoEntry) =>
               \E i \in 1..Len(HistoryOf(history, reqs'[r].from)) :
                 history[reqs'[r].from][i] = reqs'[r].previous ]_vars

\* a request of u1 has just stored a recommendation while a request of u2, who
\* has a session of their own, is in flight
C14_Witness ==
  /\ reqs[1].pc = "send" /\ reqs[1].from = "u1" /\ reqs[1].appended
  /\ InFlight(reqs[2]) /\ reqs[2].from = "u2"
  /\ SessionOf(sessions, "u2").stage = "waiting_language"
  /\ SessionOf(sessions, "u1").stage = "playlist_shown"

\* C15: overlapping requests of one user are not safe.  A handler whose
\* snapshot is still current when it commits (as in every sequential
\* processing) never stores the playlist of the most recent match when the
\* provider offered another one; a handler that commits on a snapshot the
\* other handler has overwritten does (C15_Witness): both requests for the
\* same mood and language are recommended the same playlist.
C15_CurrentSnapshotAvoidsRepeat ==
  [][ \A r \in Slots :
        LET q  == reqs'[r]
            h  == HistoryOf(history, q.from)
            h2 == HistoryOf(history', q.from)
            e  == h2[Len(h2)]
            M  == LastOfList(h, e.mood, e.language)
        IN  ( /\ SearchReturns(r)
              /\ OneAppended(h, h2)
              /\ q.previous = M
              /\ \E i \in 1..Len(q.items) :
                   Truthy(q.items[i].id) /\ q.items[i].id # M.playlistId ) =>
              e.playlistId # M.playlistId ]_vars

\* two entries of one user for the same mood and language name the same
\* playlist, stored by a request that saw no previous entry although the
\* provider offered another playlist
C15_Witness ==
  \E r \in Slots :
    LET q == reqs[r]
        h == HistoryOf(history, q.from)
    IN  /\ q.pc = "send"
        /\ q.appended
        /\ q.previous = NoEntry
        /\ Len(h) = 2
        /\ MatchesPair(h[1], h[2].mood, h[2].language)
        /\ h[1].playlistId = h[2].playlistId
        /\ h[2].playlistId = q.playlistId
        /\ \E i \in 1..Len(q.items) : q.items[i].id # q.playlistId

\* the first of the values that is present, or the fallback
FirstPresent(values, fallback) ==
  LET present == SelectSeq(values, Truthy)
  IN  IF present = <<>> THEN fallback ELSE present[1]

\* C16: for an intent other than artist_search the built query is mood, a
\* space, vibe when both are present, the one that is present when only one
\* is, and the lower-cased message when both are absent; it is never empty.
C16_MoodQuery ==
  \A r \in Slots :
    LET q  == reqs[r]
        ai == q.ai
    IN  (q.pc = "built" /\ ai.intent # "artist_search") =>
          /\ q.query =
               IF Truthy(ai.mood) /\ Truthy(ai.vibe)
               THEN ai.mood \o <<" ">> \o ai.vibe
               ELSE FirstPresent(<<ai.mood, ai.vibe>>,
                                 toLowerCase(trim(q.body)))
          /\ q.query # <<>>

\* a query was built from a mood and a vibe
C16_Witness ==
  \E r \in Slots :
    /\ reqs[r].pc = "built"
    /\ reqs[r].ai.intent = "playlist"
    /\ reqs[r].ai.mood = Sad
    /\ reqs[r].ai.vibe = Slow
    /\ reqs[r].query = <<"s","a","d"," ","s","l","o","w">>

Remembered(fresh, stored) == IF Truthy(fresh) THEN fresh ELSE stored

\* C18: a waiting_language resume or a change_vibe turn that stores a session
\* after a successful search stores, for each of vibe, artist and track, the
\* freshly classified value when there is one and the remembered value
\* otherwise, and never replaces a remembered mood; the resume does the same
\* for the intent.
C18_MemoryFillsNullFields ==
  [][ \A r \in Slots :
        LET q      == reqs[r]
            ai     == IF q.branch = "waiting_language" THEN NoClassification
                      ELSE q.ai
            before == q.current
            after  == sessions'[q.from]
        IN  ( /\ SearchReturns(r)
              /\ q.branch \in {"waiting_language", "change_vibe"}
              /\ reqs'[r].outcome = "found" ) =>
              /\ after.mood = before.mood
              /\ after.vibe = Remembered(ai.vibe, before.vibe)
              /\ after.lastArtist = Remembered(ai.artist, before.lastArtist)
              /\ after.lastTrack = Remembered(ai.track, before.lastTrack)
              /\ q.branch = "waiting_language" =>
                   after.lastIntent = IntentOr(before.lastIntent) ]_vars

\* C19: getLastHistory answers with an entry of the asking user's own list
\* whose mood and language equal the pair asked for up to letter case and
\* whose timestamp is the greatest among the entries that do, and with no
\* entry when none does.
C19_LastHistoryIsLatestMatch ==
  \A r \in Slots :
    LET q       == reqs[r]
        own     == HistoryOf(history, q.from)
        matches == { i \in 1..Len(own) :
                       /\ toLowerCase(own[i].mood) = toLowerCase(q.ai.mood)
                       /\ toLowerCase(own[i].language)
                            = toLowerCase(q.ai.language) }
    IN  q.pc = "looked" =>
          IF matches = {}
          THEN q.previous = NoEntry
          ELSE \E i \in matches :
                 /\ q.previous = own[i]
                 /\ \A j \in matches :
                      own[j].lastUsedAt <= q.previous.lastUsedAt

\* the later of two entries matching up to letter case was returned, not the
\* first of the list and not the other user's still later entry
C19_Witness ==
  \E r \in Slots :
    LET q   == reqs[r]
        own == HistoryOf(history, q.from)
    IN  /\ q.pc = "looked"
        /\ Len(own) = 3
        /\ own[1].mood = Sad /\ own[1].language = En /\ own[1].lastUsedAt = 0
        /\ own[2].mood = Happy
        /\ own[3].mood = SadCap /\ own[3].language = En
        /\ own[3].lastUsedAt = 1
        /\ q.ai.mood = SadCap
        /\ q.previous = own[3]
        /\ HistoryOf(history, "u2") # <<>>

\* position of the first element of ks equal to k
FirstIndexOf(k, ks) ==
  CHOOSE i \in 1..Len(ks) :
    ks[i] = k /\ \A j \in 1..(i - 1) : ks[j] # k

\* key occurs count times in ks, no value of ks occurs more often, and no
\* value occurring as often is met earlier in ks
IsTop(key, count, ks) ==
  /\ \E i \in 1..Len(ks) : ks[i] = key
  /\ count = Cardinality({ i \in 1..Len(ks) : ks[i] = key })
  /\ \A i \in 1..Len(ks) :
       LET n == Cardinality({ j \in 1..Len(ks) : ks[j] = ks[i] })
       IN  /\ n <= count
           /\ n = count => FirstIndexOf(key, ks) <= i

\* C20: getUserStats answers null exactly when the user has no entries;
\* otherwise totalPlays is the number of entries, first and last are the
\* timestamps of the first and the last appended entry, and top mood, top
\* language and top playlist (values compared without regard to letter case)
\* each occur most often, the first met in insertion order winning a tie.
C20_StatsCountTheHistory ==
  \A r \in Slots :
    LET q     == reqs[r]
        own   == HistoryOf(history, q.from)
        stats == getUserStats(history, q.from)
        n     == Len(own)
        moods == [ i \in 1..n |-> toLowerCase(own[i].mood) ]
        langs == [ i \in 1..n |-> toLowerCase(own[i].language) ]
        lists == [ i \in 1..n |-> toLowerCase(own[i].playlistName) ]
    IN  q.pc = "counted" =>
          /\ q.reply = StatsReply(stats)
          /\ stats = NoStats <=> own = <<>>
          /\ own # <<>> =>
               /\ stats.totalPlays = n
               /\ stats.first = own[1].lastUsedAt
               /\ stats.last = own[n].lastUsedAt
               /\ IsTop(stats.topMood, stats.topMoodCount, moods)
               /\ IsTop(stats.topLanguage, stats.topLanguageCount, langs)
               /\ IsTop(toLowerCase(stats.topPlaylistName),
                        stats.topPlaylistCount, lists)

\* statistics of three entries: the top mood is not the first one met, the
\* languages' top is, and the two playlists tied before the third entry
C20_Witness ==
  \E r \in Slots :
    LET q     == reqs[r]
        own   == HistoryOf(history, q.from)
        stats == getUserStats(history, q.from)
    IN  /\ q.pc = "counted"
        /\ Len(own) = 3
        /\ own[1].mood = Happy /\ own[2].mood = Sad /\ own[3].mood = SadCap
        /\ own[2].language = Hi
        /\ own[1].playlistId = P2.id /\ own[2].playlistId = P1.id
        /\ own[3].playlistId = P1.id
        /\ stats.topMood = Sad /\ stats.topMoodCount = 2
        /\ stats.topLanguage = En /\ stats.topLanguageCount = 2
        /\ stats.topPlaylistName = P1.name /\ stats.topPlaylistCount = 2

\* a handler is entered: the slot leaves its resting position
Received(r) == reqs[r].pc \in {"idle", "done"} /\ reqs'[r] # reqs[r]

\* C21: an inbound event passes the entry of the handler only with a sender and
\* a text body; every other event is answered at once with status 400, the
\* sessions and the history being left as they were and neither the classifier
\* nor the search being awaited.
C21_MalformedRejectedUntouched ==
  [][ \A r \in Slots :
        Received(r) =>
          IF reqs'[r].from # NoFrom /\ reqs'[r].body # NULL
          THEN reqs'[r].pc \in {"classify", "search"}
          ELSE /\ reqs'[r].pc = "done"
               /\ reqs'[r].status = 400
               /\ reqs'[r].sent = "none"
               /\ ~reqs'[r].classified
               /\ ~reqs'[r].searched
               /\ UNCHANGED <<sessions, history, clock>> ]_vars

\* an event without a sender was answered with 400 while the store held a
\* session and an entry of an earlier turn
C21_Witness ==
  \E r \in Slots :
    /\ reqs[r].pc = "done"
    /\ reqs[r].from = NoFrom
    /\ reqs[r].status = 400
    /\ HistoryOf(history, "u1") # <<>>
    /\ SessionOf(sessions, "u1").stage = "playlist_shown"

\* C22: a turn whose reply was not delivered (the channel answered with an
\* error or with a rate limit, or raised) ends with a failure status.
C22_FailedDeliveryReported ==
  \A r \in Slots :
    (reqs[r].pc = "done" /\ reqs[r].sent \in {"failed", "throw"}) =>
      reqs[r].status >= 400

\* C23: while the reply of a turn is being delivered and while its apology is,
\* the history is left as it is; when the delivery of a recommendation whose
\* entry was appended fails, that entry is still the last one of the user.
C23_FailedDeliveryKeepsEntry ==
  [][ \A r \in Slots :
        LET q   == reqs[r]
            own == HistoryOf(history', q.from)
        IN  /\ (q.pc \in {"send", "apology"} /\ reqs'[r] # q) =>
                 history' = history
            /\ ( /\ q.pc = "send"
                 /\ q.appended
                 /\ reqs'[r].sent \in {"failed", "throw"} ) =>
                 /\ own # <<>>
                 /\ own[Len(own)].playlistId = q.playlistId ]_vars

\* the delivery of a recommendation raised and its entry is in the history
C23_Witness ==
  \E r \in Slots :
    LET q   == reqs[r]
        own == HistoryOf(history, q.from)
    IN  /\ q.pc = "apology"
        /\ q.sent = "throw"
        /\ q.appended
        /\ own # <<>>
        /\ own[Len(own)].playlistId = q.playlistId

\* C24: every turn ends with a response, and a turn for which the apology was
\* attempted ends with the error response whatever became of the apology.
C24_ApologyFailureSwallowed ==
  \A r \in Slots :
    reqs[r].pc = "done" =>
      /\ reqs[r].status # 0
      /\ reqs[r].apology # "none" => reqs[r].status = 500

\* C25: when the search raises, the handler goes to its catch block without
\* searching again, sessions and history stay as they are until the turn ends,
\* the apology is attempted and the turn ends with a status of 400 or more.
C25_SearchFailureCaught ==
  [][ \A r \in Slots :
        LET q == reqs[r]
        IN  /\ (q.pc = "search" /\ reqs'[r].pc \notin {"search", "send"}) =>
                 /\ reqs'[r].pc = "apology"
                 /\ UNCHANGED <<sessions, history>>
            /\ (q.pc = "apology" /\ q.outcome = "throw" /\ reqs'[r] # q) =>
                 /\ reqs'[r].pc = "done"
                 /\ reqs'[r].apology # "none"
                 /\ reqs'[r].status >= 400
                 /\ UNCHANGED <<sessions, history>> ]_vars

\* the remote call did not produce an answer
ClassifierFailed(q) == q.completion.kind \in {"nokey", "error", "unparsable"}

\* C26: when the remote classifier has no key, raises or answers with text
\* that cannot be parsed, the classification returned has the trimmed,
\* lower-cased message as its mood (null when that is empty), no language,
\* vibe, artist or track, and the intent playlist.
C26_FailureGivesMessageAsMood ==
  \A r \in Slots :
    LET q == reqs[r]
    IN  (q.pc = "classified" /\ ClassifierFailed(q)) =>
          q.ai = Classification(Or(toLowerCase(trim(q.body)), NULL),
                                NULL, NULL, NULL, NULL, "playlist")

\* a field of the answer is unset, empty or blank
Blank(v) == v = NULL \/ \A i \in 1..Len(v) : v[i] = " "

RecognisedIntents ==
  { <<"p","l","a","y","l","i","s","t">>,
    <<"a","r","t","i","s","t","_","s","e","a","r","c","h">>,
    <<"r","e","p","e","a","t">>,
    <<"c","h","a","n","g","e","_","v","i","b","e">> }

Unrecognised(raw) ==
  raw # NULL /\ toLowerCase(trim(raw)) \notin RecognisedIntents

Accepted(capture, stoplist) ==
  IF capture # NULL /\ toLowerCase(capture) \notin stoplist THEN capture
  ELSE NULL

\* C29: the artist returned is the one the classifier gave or else the one of
\* the first of the three patterns, in their order, that yields an artist; a
\* returned artist makes the intent artist_search unless the answer's intent
\* was repeat or change_vibe, which is then kept.
C29_FirstPatternWins ==
  \A r \in Slots :
    LET q      == reqs[r]
        parsed == q.completion.parsed
        words  == Words(trim(q.body))
        given  == IF Blank(parsed.artist) THEN NULL ELSE trim(parsed.artist)
        first  == FirstPresent(
                    << given, byMatch(words),
                       Accepted(artistFirstMatch(words), GenericWords),
                       Accepted(simpleByMatch(words), Pronouns) >>, NULL)
        asked  == IF parsed.intent = NULL THEN <<>>
                  ELSE toLowerCase(trim(parsed.intent))
    IN  (q.pc = "classified" /\ q.completion.kind # "nokey") =>
          /\ q.ai.artist = IF first = NULL THEN NULL ELSE toLowerCase(first)
          /\ q.ai.artist # NULL =>
               q.ai.intent =
                 IF asked = <<"r","e","p","e","a","t">> THEN "repeat"
                 ELSE IF asked = <<"c","h","a","n","g","e","_","v","i","b","e">>
                 THEN "change_vibe"
                 ELSE "artist_search"

\* the second pattern gave the artist although the third matched another, and
\* the answer's intent repeat was kept
C29_Witness ==
  \E r \in Slots :
    LET q == reqs[r]
    IN  /\ q.pc = "classified"
        /\ q.body = <<"D","r","a","k","e"," ","s","o","n","g","s"," ","n","o","t"," ","b","y"," ","A","b","b","a">>
        /\ q.completion.kind = "answer"
        /\ q.completion.parsed.artist = NULL
        /\ q.completion.parsed.intent = <<"r","e","p","e","a","t">>
        /\ q.ai.artist = Drake
        /\ q.ai.intent = "repeat"

\* the remote classifier took the message for a question about statistics
AssertsUserStats(q) ==
  \E t \in DialogueTurns :
    /\ t.body = q.body
    /\ t.completion.kind = "answer"
    /\ t.completion.parsed.intent # NULL
    /\ toLowerCase(trim(t.completion.parsed.intent)) = <<"u","s","e","r","_","s","t","a","t","s">>

\* C28: a message that is not one of the stats commands and for which the
\* remote classifier asserts intent user_stats is answered with the stats
\* reply, as the stats commands are, and changes neither session nor history.
C28_StatsIntentGivesStats ==
  [][ \A r \in Slots :
        ( /\ ClassifierReturns(r)
          /\ ~StatsLiteral(reqs[r].body)
          /\ AssertsUserStats(reqs[r]) ) => StatsCommandStep(r) ]_vars

\* the artist repair alone gave the classification of the message its artist
ArtistByHeuristicOnly(q, ai) ==
  /\ Truthy(ai.artist)
  /\ ~Truthy(ai.mood)
  /\ ~Truthy(ai.language)
  /\ ~Truthy(ai.track)
  /\ \A t \in DialogueTurns :
       t.body = q.body => Blank(t.completion.parsed.artist)

\* C30: a fresh message whose artist comes from the artist repair alone, with
\* no mood and no language, is classified artist_search and stores a
\* waiting_language session holding that artist; the message received in that
\* session is the language, the query searched for is the stored artist, and
\* a non-empty result makes the stage playlist_shown.
C30_TwoTurnArtistFlow ==
  [][ \A r \in Slots :
        LET q   == reqs[r]
            n   == reqs'[r]
            now == SessionOf(sessions', q.from)
        IN  /\ ( /\ ClassifierReturns(r)
                 /\ ~StatsLiteral(q.body)
                 /\ ArtistByHeuristicOnly(q, n.ai) ) =>
                 /\ n.ai.intent = "artist_search"
                 /\ now.stage = "waiting_language"
                 /\ now.lastArtist = n.ai.artist
                 /\ now.lastIntent = "artist_search"
                 /\ ~n.searched
            /\ ( /\ Received(r)
                 /\ n.pc = "search"
                 /\ n.branch = "waiting_language"
                 /\ Truthy(n.current.lastArtist)
                 /\ ~Truthy(n.current.mood)
                 /\ ~Truthy(n.current.lastTrack) ) =>
                 /\ n.language = toLowerCase(trim(n.body))
                 /\ n.query = n.current.lastArtist
                 /\ ~n.classified
            /\ ( /\ SearchReturns(r)
                 /\ q.branch = "waiting_language"
                 /\ Truthy(q.current.lastArtist)
                 /\ n.tracks.tracks # <<>> ) =>
                 /\ now.stage = "playlist_shown"
                 /\ now.language = q.language
                 /\ now.lastArtist = q.current.lastArtist ]_vars

\* the language was received after "Songs by Drake": the search for "drake"
\* found a playlist and the stage is playlist_shown
C30_Witness ==
  \E r \in Slots :
    LET q == reqs[r]
    IN  /\ q.pc = "send"
        /\ q.branch = "waiting_language"
        /\ q.current.lastArtist = Drake
        /\ q.current.lastIntent = "artist_search"
        /\ q.query = Drake
        /\ q.language = En
        /\ q.tracks.tracks # <<>>
        /\ SessionOf(sessions, q.from).stage = "playlist_shown"
        /\ SessionOf(sessions, q.from).lastArtist = Drake

\* C31: a change_vibe turn whose search found a playlist stores a session in
\* stage playlist_shown with the stored mood and language, the newly classified
\* vibe when there is one and the stored vibe otherwise, and the new playlist
\* as lastPlaylistId; it appends exactly one entry (stored mood, stored
\* language, new playlist); the query searched for was the stored mood
\* followed by that vibe.
C31_ChangeVibeMergesVibe ==
  [][ \A r \in Slots :
        LET q      == reqs[r]
            before == q.current
            after  == SessionOf(sessions', q.from)
            vibe   == IF Truthy(q.ai.vibe) THEN q.ai.vibe ELSE before.vibe
            old    == HistoryOf(history, q.from)
            new    == HistoryOf(history', q.from)
        IN  ( /\ SearchReturns(r)
              /\ q.branch = "change_vibe"
              /\ reqs'[r].outcome = "found" ) =>
              /\ after.stage = "playlist_shown"
              /\ after.mood = before.mood
              /\ after.language = before.language
              /\ after.vibe = vibe
              /\ after.lastPlaylistId = reqs'[r].tracks.playlist.id
              /\ OneAppended(old, new)
              /\ new[Len(new)].mood = before.mood
              /\ new[Len(new)].language = before.language
              /\ new[Len(new)].playlistId = reqs'[r].tracks.playlist.id
              /\ q.query = IF Truthy(vibe)
                           THEN before.mood \o <<" ">> \o vibe
                           ELSE before.mood ]_vars

\* a change_vibe turn without a vibe of its own found a playlist: the stored
\* vibe was searched for and is kept
C31_Witness ==
  \E r \in Slots :
    LET q == reqs[r]
    IN  /\ q.pc = "send"
        /\ q.branch = "change_vibe"
        /\ q.outcome = "found"
        /\ q.ai.vibe = NULL
        /\ q.current.vibe = Slow
        /\ q.query = <<"s","a","d"," ","s","l","o","w">>
        /\ SessionOf(sessions, q.from).vibe = Slow
        /\ SessionOf(sessions, q.from).lastPlaylistId = q.tracks.playlist.id

\* C32: when the classifier's answer has the intent repeat or change_vibe,
\* the artist returned is the one of the answer, lower-cased, and null when
\* the answer has none, whatever the message holds.
C32_NoRepairForRepeatAndChangeVibe ==
  \A r \in Slots :
    LET q      == reqs[r]
        parsed == q.completion.parsed
    IN  ( /\ q.pc = "classified"
          /\ q.completion.kind = "answer"
          /\ parsed.intent # NULL
          /\ toLowerCase(trim(parsed.intent))
               \in { <<"r","e","p","e","a","t">>,
                     <<"c","h","a","n","g","e","_","v","i","b","e">> } ) =>
          q.ai.artist = IF Blank(parsed.artist) THEN NULL
                        ELSE toLowerCase(trim(parsed.artist))

\* C33: when several entries of the user match the pair asked for, the entry
\* returned is, among those with the greatest timestamp, the one appended
\* last.
C33_TieGoesToLastAppended ==
  \A r \in Slots :
    LET q       == reqs[r]
        own     == HistoryOf(history, q.from)
        matches == { i \in 1..Len(own) :
                       /\ toLowerCase(own[i].mood) = toLowerCase(q.ai.mood)
                       /\ toLowerCase(own[i].language)
                            = toLowerCase(q.ai.language) }
        latest  == { i \in matches :
                       \A j \in matches :
                         own[j].lastUsedAt <= own[i].lastUsedAt }
    IN  (q.pc = "looked" /\ matches # {}) =>
          q.previous = own[CHOOSE i \in latest : \A j \in latest : j <= i]

\* the lines that open a logical group inside a reply
GroupOpeners == {"song", "alt-intro", "stats-total", "stats-first"}

\* the lines that close the note about the previous entry
NoteClosers == {"same-playlist", "same-playlist-link"}

\* C34: in the reply of every turn each logical group (the note about the
\* previous entry, the recommendation header and links, the first song, the
\* alternate playlist, the blocks of the statistics) is set off from the lines
\* before it by one blank line, and no other blank line is left: none at the
\* ends and no two in a row.
C34_GroupsSeparatedByBlankLine ==
  \A r \in Slots :
    LET reply == reqs[r].reply
        n     == Len(reply)
    IN  (reqs[r].pc = "send" /\ n > 0) =>
          /\ reply[1] # EmptyLine
          /\ reply[n] # EmptyLine
          /\ \A i \in 2..n :
               /\ ~(reply[i] = EmptyLine /\ reply[i - 1] = EmptyLine)
               /\ reply[i].tag \in GroupOpeners => reply[i - 1] = EmptyLine
               /\ ( /\ reply[i - 1].tag \in NoteClosers
                    /\ reply[i].tag \notin NoteClosers ) =>
                    reply[i] = EmptyLine

\* the entries of the list for the mood and language, in the order of the list
EntriesFor(list, mood, language) ==
  SelectSeq(list, LAMBDA e : MatchesPair(e, mood, language))

\* C35: when requests are processed one after the other, an entry appended for
\* a mood and language never names the playlist of the entry appended before it
\* for the same mood and language, provided the search of the later request
\* returned a candidate with another id.
C35_ConsecutiveEntriesDiffer ==
  [][ \A r \in Slots :
        LET q     == reqs'[r]
            h     == HistoryOf(history, q.from)
            h2    == HistoryOf(history', q.from)
            e     == h2[Len(h2)]
            same  == EntriesFor(h, e.mood, e.language)
            prior == same[Len(same)]
        IN  ( /\ SearchReturns(r)
              /\ OneAppended(h, h2)
              /\ same # <<>>
              /\ \E i \in 1..Len(q.items) :
                   Truthy(q.items[i].id) /\ q.items[i].id # prior.playlistId ) =>
              e.playlistId # prior.playlistId ]_vars

\* C36: the history entry and the session are written in one uninterrupted
\* step, so even when requests of one user overlap, a session in stage
\* playlist_shown with a mood names in lastPlaylistId the playlist of the last
\* entry of that user's history.
C36_SessionNamesLastEntry ==
  \A u \in DOMAIN sessions :
    LET session == sessions[u]
        h       == HistoryOf(history, u)
    IN  (session.stage = "playlist_shown" /\ Truthy(session.mood)) =>
          /\ h # <<>>
          /\ session.lastPlaylistId = h[Len(h)].playlistId

\* two overlapping requests of u1 have both stored a recommendation and neither
\* has sent its reply yet
C36_Witness ==
  /\ \A r \in Slots :
       reqs[r].pc = "send" /\ reqs[r].from = "u1" /\ reqs[r].appended
  /\ Len(HistoryOf(history, "u1")) = 2
  /\ "u1" \in DOMAIN sessions
  /\ sessions["u1"].stage = "playlist_shown"
  /\ Truthy(sessions["u1"].mood)

\* C37: no append is lost when requests overlap.  Every request that reaches
\* addHistory adds exactly one entry, its own, at the end of its user's list and
\* leaves every entry stored before in place, and the history changes in no
\* other step: the list holds one entry for each such request, in the order in
\* which they stored.
C37_NoAppendLost ==
  [][ /\ \A r \in Slots :
           LET q  == reqs'[r]
               h  == HistoryOf(history, q.from)
               h2 == HistoryOf(history', q.from)
           IN  (SearchReturns(r) /\ q.appended) =>
                 /\ OneAppended(h, h2)
                 /\ h2[Len(h2)].playlistId = q.playlistId
                 /\ \A u \in DOMAIN history \ {q.from} : history'[u] = history[u]
      /\ history' # history =>
           \E r \in Slots : SearchReturns(r) /\ reqs'[r].appended ]_vars

\* two requests of u1 that both looked up the history before either stored
\* have both stored: the list holds the two entries
C37_Witness ==
  /\ \A r \in Slots :
       /\ reqs[r].pc = "send" /\ reqs[r].from = "u1" /\ reqs[r].appended
       /\ reqs[r].branch = "fresh"
       /\ reqs[r].previous = NoEntry
  /\ Len(HistoryOf(history, "u1")) = 2
  /\ history["u1"][2].lastUsedAt > history["u1"][1].lastUsedAt

\* a session waiting for the language holds no language and no playlist, and
\* at least one of mood, artist and track; no stored session is idle
WaitingSessionsWellFormed ==
  \A u \in DOMAIN sessions :
    LET session == sessions[u]
    IN  /\ session.stage # "idle"
        /\ session.stage = "waiting_language" =>
             /\ session.language = NULL
             /\ session.lastPlaylistId = NULL
             /\ \/ Truthy(session.mood)
                \/ Truthy(session.lastArtist)
                \/ Truthy(session.lastTrack)

\* the request resumes a session that waited for the language, and its query
\* is the text of the message, the language
ResumedOnLanguageText(q) ==
  /\ q.branch = "waiting_language"
  /\ q.pc = "search"
  /\ q.query = TextLower(q)

CandidateAt(items) == { i \in 1..Len(items) : Truthy(items[i].id) }

\* C39: with an excluded id, the playlist getPlaylistForMood returns is the
\* first candidate, in the order of the provider, whose id is not the excluded
\* one, whenever there is one; the alternate, when there is one, has neither
\* the id of the playlist nor the excluded id; and the playlist has the
\* excluded id only when every candidate has it.
C39_PrimarySkipsExcluded ==
  \A r \in Slots :
    LET q       == reqs[r]
        C       == CandidateAt(q.items)
        Others  == { i \in C : q.items[i].id # q.excludeId }
        primary == q.tracks.playlist
        alt     == q.tracks.alternatePlaylist
    IN  (q.pc = "searched" /\ Truthy(q.excludeId) /\ C # {}) =>
          /\ Others # {} =>
               \E i \in Others :
                 /\ \A j \in Others : i <= j
                 /\ primary = q.items[i]
          /\ alt # NoMeta =>
               /\ alt.id # primary.id
               /\ alt.id # q.excludeId
               /\ \E i \in C : q.items[i] = alt
          /\ primary.id = q.excludeId =>
               \A i \in C : q.items[i].id = q.excludeId

\* the excluded playlist came first: the second candidate is returned and the
\* third is its alternate
C39_Witness ==
  \E r \in Slots :
    /\ reqs[r].pc = "searched"
    /\ reqs[r].excludeId = P1.id
    /\ reqs[r].items = <<P1, P2, P3>>
    /\ reqs[r].tracks.playlist = P2
    /\ reqs[r].tracks.alternatePlaylist = P3

====
